---- MODULE Spec2Model ----
(***************************************************************************)
(* Model of the safety-score pipeline of safety_score_agent: the three     *)
(* scraping category evaluators (crime, infrastructure, law enforcement)   *)
(* with their providers, score functions and fallback tables, the tool of  *)
(* the conflict agent, the composite scorer of the synthesizer agent, and  *)
(* the root agent that runs the four gathering agents and the synthesizer. *)
(*                                                                         *)
(* Numbers.  Every metric and every score x is held as the integer 10*x    *)
(* (cpi_score 65 is 650, a score of 12.5 is 125).  Python computes in      *)
(* binary floating point and rounds with round(x, 1); the model computes   *)
(* the exact rational and rounds half-even.  The two agree on every input  *)
(* the specifications below enumerate (all inputs were run through the     *)
(* Python functions and compared).                                         *)
(*                                                                         *)
(* Python values.  A dict is a function whose DOMAIN is its key set, so    *)
(* "key in d" is `k \in DOMAIN d'.  A numeric value that may be None is a   *)
(* sequence of length at most one: <<n>> is the number n, <<>> is None.    *)
(* A raised exception is the record [exception |-> type].                  *)
(***************************************************************************)
EXTENDS Integers, Sequences, FiniteSets, TLC

None == <<>>
Num(n) == <<n>>
EmptyDict == [k \in {} |-> None]

Has(d, k) == k \in DOMAIN d
Get(d, k, default) == IF k \in DOMAIN d THEN d[k] ELSE default

\* what a call gave back: a returned value, or a raised exception
Return(x) == [value |-> x]
Raised(type) == [exception |-> type]
IsRaised(x) == "exception" \in DOMAIN x

Max(a, b) == IF a >= b THEN a ELSE b

\* f extended (or overwritten) with the keys of g: dict.update
Update(f, g) ==
    [k \in DOMAIN f \cup DOMAIN g |-> IF k \in DOMAIN g THEN g[k] ELSE f[k]]

RECURSIVE SumSeq(_)
SumSeq(s) == IF s = <<>> THEN 0 ELSE Head(s) + SumSeq(Tail(s))

\* round(a / b) to the nearest integer, ties to even (b > 0)
RoundHalfEven(a, b) ==
    LET q == a \div b
        r == a % b
    IN  IF 2 * r < b THEN q
        ELSE IF 2 * r > b THEN q + 1
        ELSE IF q % 2 = 0 THEN q ELSE q + 1

(***************************************************************************)
(* Infrastructure: score function and risk classifier                      *)
(***************************************************************************)

\* The component scores, each in units of 1/120 point; None marks a
\* component whose arithmetic raises TypeError (a metric that is None).
political_score(cpi_score) ==
    IF cpi_score = None THEN None ELSE Num(3 * cpi_score[1])

\* mutant: the max(0, ...) clamp left out
traffic_score_unclamped(fatality_rate) ==
    IF fatality_rate = None THEN None
    ELSE Num(3000 - 10 * fatality_rate[1])

traffic_score(fatality_rate) ==
    IF fatality_rate = None THEN None
    ELSE Num(Max(0, 3000 - 10 * fatality_rate[1]))

healthcare_score(healthcare_index) ==
    IF healthcare_index = None THEN None ELSE Num(3 * healthcare_index[1])

infra_score_components(infra_data) ==
    (IF Has(infra_data, "corruption_perception_index")
       THEN <<political_score(Get(infra_data["corruption_perception_index"],
                                  "cpi_score", Num(500)))>>
       ELSE <<>>)
    \o
    (IF Has(infra_data, "traffic_safety_data")
       THEN <<traffic_score(Get(infra_data["traffic_safety_data"],
                                "road_traffic_deaths_per_100k", Num(150)))>>
       ELSE <<>>)
    \o
    (IF Has(infra_data, "healthcare_system")
       THEN <<healthcare_score(Get(infra_data["healthcare_system"],
                                   "healthcare_access_quality_index", Num(500)))>>
       ELSE <<>>)

\* mutant: the sum is always divided by the three providers of a category
mean_of_components_of_three(comps, unit) ==
    IF \E i \in DOMAIN comps : comps[i] = None THEN None
    ELSE Num(RoundHalfEven(SumSeq([i \in DOMAIN comps |-> comps[i][1]]), unit * 3))

\* mutant: the components that could not be computed are left out of the mean
mean_of_components_skipping(comps, unit) ==
    LET computed == SelectSeq(comps, LAMBDA c : c # None)
    IN  IF computed = <<>> THEN None
        ELSE Num(RoundHalfEven(SumSeq([i \in DOMAIN computed |-> computed[i][1]]),
                               unit * Len(computed)))

\* The mean of the components in tenths of a point, rounded to one decimal
\* (round(average_score, 1)); None when the arithmetic raised TypeError.
\* `unit' is the number of component units in a tenth of a point.
mean_of_components(comps, unit) ==
    IF \E i \in DOMAIN comps : comps[i] = None THEN None
    ELSE Num(RoundHalfEven(SumSeq([i \in DOMAIN comps |-> comps[i][1]]),
                           unit * Len(comps)))

calculate_infrastructure_score(infra_data) ==
    LET comps == infra_score_components(infra_data)
        mean  == mean_of_components(comps, 12)
    IN  IF comps = <<>> THEN 125
        ELSE IF mean = None THEN 125
        ELSE mean[1]

analyze_infrastructure_risks(infra_data) ==
    LET has_cpi == Has(infra_data, "corruption_perception_index")
        has_traffic == Has(infra_data, "traffic_safety_data")
        has_health == Has(infra_data, "healthcare_system")
        cpi == IF has_cpi
               THEN Get(infra_data["corruption_perception_index"], "cpi_score", Num(500))
               ELSE Num(1000)
        rate == IF has_traffic
                THEN Get(infra_data["traffic_safety_data"],
                         "road_traffic_deaths_per_100k", Num(150))
                ELSE Num(0)
        hq == IF has_health
              THEN Get(infra_data["healthcare_system"],
                       "healthcare_access_quality_index", Num(500))
              ELSE Num(1000)
    IN  IF cpi = None \/ rate = None \/ hq = None THEN Raised("TypeError")
        ELSE
        [ political_risk_level |->
              IF cpi[1] < 400 THEN "High" ELSE IF cpi[1] < 600 THEN "Medium" ELSE "Low",
          transport_risk_level |->
              IF rate[1] > 200 THEN "High" ELSE IF rate[1] > 100 THEN "Medium" ELSE "Low",
          healthcare_risk_level |->
              IF hq[1] < 500 THEN "High" ELSE IF hq[1] < 700 THEN "Medium" ELSE "Low",
          specific_risks |->
              (IF cpi[1] < 400 THEN <<"corruption_high">>
               ELSE IF cpi[1] < 600 THEN <<"transparency_issue">> ELSE <<>>)
              \o (IF rate[1] > 200 THEN <<"traffic_very_high">>
                  ELSE IF rate[1] > 100 THEN <<"traffic_somewhat_high">> ELSE <<>>)
              \o (IF hq[1] < 500 THEN <<"healthcare_low">>
                  ELSE IF hq[1] < 700 THEN <<"healthcare_uneven">> ELSE <<>>),
          recommendations |->
              (IF cpi[1] < 400 THEN <<"refuse_bribes">>
               ELSE IF cpi[1] < 600 THEN <<"use_official_routes">> ELSE <<>>)
              \o (IF rate[1] > 200 THEN <<"use_public_transport">>
                  ELSE IF rate[1] > 100 THEN <<"wear_seatbelt">> ELSE <<>>)
              \o (IF hq[1] < 500 THEN <<"insurance_required">>
                  ELSE IF hq[1] < 700 THEN <<"research_hospitals">> ELSE <<>>),
          emergency_preparedness |->
              IF hq[1] < 500 THEN "Caution" ELSE "Good" ]

(***************************************************************************)
(* Law enforcement: score function                                         *)
(***************************************************************************)

\* component scores in units of 1/80 point
gpi_score(police_reliability) ==
    IF police_reliability = None THEN None
    ELSE Num(Max(0, 2500 - 50 * police_reliability[1]))

wb_score(rule_of_law_percentile) ==
    IF rule_of_law_percentile = None THEN None
    ELSE Num(2 * rule_of_law_percentile[1])

police_score(public_trust, corruption_level) ==
    IF public_trust = None \/ corruption_level = None THEN None
    ELSE Num(public_trust[1] + (1000 - corruption_level[1]))

\* mutant: the .get default taken from the fallback table (2.5)
police_reliability_default_fallback == Num(25)

\* the default of .get("police_reliability_score", 3.0)
police_reliability_default == Num(30)

law_score_components(law_data) ==
    (IF Has(law_data, "global_peace_index_data")
       THEN <<gpi_score(Get(law_data["global_peace_index_data"],
                            "police_reliability_score", police_reliability_default))>>
       ELSE <<>>)
    \o
    (IF Has(law_data, "world_bank_governance")
       THEN <<wb_score(Get(law_data["world_bank_governance"],
                           "rule_of_law_percentile", Num(500)))>>
       ELSE <<>>)
    \o
    (IF Has(law_data, "police_trust_indicators")
       THEN <<police_score(Get(law_data["police_trust_indicators"],
                               "public_trust_in_police", Num(500)),
                           Get(law_data["police_trust_indicators"],
                               "corruption_in_police_force", Num(500)))>>
       ELSE <<>>)

calculate_law_enforcement_score(law_data) ==
    LET comps == law_score_components(law_data)
        mean  == mean_of_components(comps, 8)
    IN  IF comps = <<>> THEN 125
        ELSE IF mean = None THEN 125
        ELSE mean[1]

(***************************************************************************)
(* Crime: score function (0-100 scale)                                     *)
(***************************************************************************)

\* component scores in tenths of a point
peace_score_component(peace_score) ==
    IF peace_score = None THEN None
    ELSE Num(Max(0, 1000 - 20 * peace_score[1]))

\* mutant: the score grows with the rate
homicide_score_rising(homicide_rate) ==
    IF homicide_rate = None THEN None
    ELSE Num(Max(0, 10 * homicide_rate[1]))

homicide_score(homicide_rate) ==
    IF homicide_rate = None THEN None
    ELSE Num(Max(0, 1000 - 10 * homicide_rate[1]))

crime_score_components(crime_data) ==
    (IF Has(crime_data, "numbeo_data") /\ Has(crime_data["numbeo_data"], "safety_index")
       THEN <<crime_data["numbeo_data"]["safety_index"]>>
       ELSE <<>>)
    \o
    (IF Has(crime_data, "global_peace_index")
          /\ Has(crime_data["global_peace_index"], "peace_score")
       THEN <<peace_score_component(crime_data["global_peace_index"]["peace_score"])>>
       ELSE <<>>)
    \o
    (IF Has(crime_data, "unodc_homicide_rate")
          /\ Has(crime_data["unodc_homicide_rate"], "homicide_rate_per_100k")
       THEN <<homicide_score(crime_data["unodc_homicide_rate"]["homicide_rate_per_100k"])>>
       ELSE <<>>)

\* mutant: data collected after the first collection counts as unknown
calculate_safety_score_by_age(crime_data) ==
    LET comps == crime_score_components(crime_data)
        mean  == mean_of_components(comps, 1)
    IN  IF comps = <<>> THEN 500
        ELSE IF mean = None THEN 500
        ELSE IF Get(crime_data, "data_collection_timestamp", 1) > 1 THEN 500
        ELSE mean[1]

calculate_safety_score(crime_data) ==
    LET comps == crime_score_components(crime_data)
        mean  == mean_of_components(comps, 1)
    IN  IF comps = <<>> THEN 500
        ELSE IF mean = None THEN 500
        ELSE mean[1]

(***************************************************************************)
(* Composite scorer (SafetyScoreSynthesizerAgent)                          *)
(***************************************************************************)

\* module constants and SafetyScoreThresholds, in tenths of a point
MAX_SCORE_PER_CATEGORY == 250
NUM_CATEGORIES == 4
EXCELLENT == 900
GOOD == 700
AVERAGE == 500
CAUTION == 300

\* mutant: strict comparisons
get_safety_level_strict(total_score) ==
    IF total_score > EXCELLENT THEN "EXCELLENT"
    ELSE IF total_score > GOOD THEN "GOOD"
    ELSE IF total_score > AVERAGE THEN "AVERAGE"
    ELSE IF total_score > CAUTION THEN "CAUTION"
    ELSE "DANGEROUS"

get_safety_level(total_score) ==
    IF total_score >= EXCELLENT THEN "EXCELLENT"
    ELSE IF total_score >= GOOD THEN "GOOD"
    ELSE IF total_score >= AVERAGE THEN "AVERAGE"
    ELSE IF total_score >= CAUTION THEN "CAUTION"
    ELSE "DANGEROUS"

\* mutant: only the upper limit is checked
validate_scores_upper_only(scores) ==
    IF Cardinality(DOMAIN scores) # NUM_CATEGORIES THEN FALSE
    ELSE \A category \in DOMAIN scores : scores[category] <= MAX_SCORE_PER_CATEGORY

validate_scores(scores) ==
    IF Cardinality(DOMAIN scores) # NUM_CATEGORIES THEN FALSE
    ELSE \A category \in DOMAIN scores :
            0 <= scores[category] /\ scores[category] <= MAX_SCORE_PER_CATEGORY

RECURSIVE SumValues(_)
SumValues(scores) ==
    IF DOMAIN scores = {} THEN 0
    ELSE LET k == CHOOSE x \in DOMAIN scores : TRUE
         IN  scores[k] + SumValues([x \in DOMAIN scores \ {k} |-> scores[x]])

\* mutant: the total truncated to whole points (int(sum(...)))
calculate_total_score_truncated(scores) ==
    IF ~validate_scores(scores) THEN Raised("ValueError")
    ELSE Return((SumValues(scores) \div 10) * 10)

calculate_total_score(scores) ==
    IF ~validate_scores(scores) THEN Raised("ValueError")
    ELSE Return(SumValues(scores))

(***************************************************************************)
(* HTTP fetches and exception handling                                     *)
(***************************************************************************)

\* One HTTP fetch as the caller sees it.  `exc' is the exception the request
\* raises ("none" when a response arrives), `status' the response's status
\* code, `page' what BeautifulSoup(response.content) gives the scraper:
\*   soup    "raises" when the parser rejects the content, else "ok"
\*   country whether the text the scraper searches holds the country's name
\*   value   the number the scraper's pattern extracts for its metric
\*           (None: the pattern matches nothing)
\*   other   a second number, for scrapers that read two metrics
Page(soup, country, value, other) ==
    [soup |-> soup, country |-> country, value |-> value, other |-> other]
Fetch(exc, status, page) == [exc |-> exc, status |-> status, page |-> page]

\* the exception classes derived from requests.RequestException
IsRequestException(type) ==
    type \in {"ConnectionError", "Timeout", "HTTPError", "RetryError"}

\* truthiness of a dict (None and {} are both falsy) and of an optional number
Truthy(d) == DOMAIN d # {}
TruthyNum(v) == v # None /\ v[1] # 0

\* requests.get; response.raise_for_status(); BeautifulSoup(response.content):
\* the soup, or the first exception of the three
get_checked_soup(f) ==
    IF f.exc # "none" THEN Raised(f.exc)
    ELSE IF f.status >= 400 THEN Raised("HTTPError")
    ELSE IF f.page.soup = "raises" THEN Raised("ParserRejectedMarkup")
    ELSE Return(f.page)

\* requests.get / session.get; BeautifulSoup(response.content), the status
\* never looked at
get_soup(f) ==
    IF f.exc # "none" THEN Raised(f.exc)
    ELSE IF f.page.soup = "raises" THEN Raised("ParserRejectedMarkup")
    ELSE Return(f.page)

\* session.get through HTTPAdapter(max_retries=Retry(total=3,
\* status_forcelist=[429, 500, 502, 503, 504])): a status of the list, still
\* there after the retries, raises RetryError
status_forcelist == {429, 500, 502, 503, 504}

session_get_soup(f) ==
    IF f.exc # "none" THEN Raised(f.exc)
    ELSE IF f.status \in status_forcelist THEN Raised("RetryError")
    ELSE IF f.page.soup = "raises" THEN Raised("ParserRejectedMarkup")
    ELSE Return(f.page)

\* mutant: a handler for requests.RequestException only
except_RequestException(result, handler) ==
    IF IsRaised(result) /\ IsRequestException(result.exception)
    THEN Return(handler) ELSE result

\* try: <result>  except Exception: return <handler>
except_Exception(result, handler) ==
    IF IsRaised(result) THEN Return(handler) ELSE result

(***************************************************************************)
(* Infrastructure: providers, fallback table and evaluator.  A bundle      *)
(* holds the metric field the scorer reads and the provenance fields.      *)
(***************************************************************************)

get_fallback_corruption_data(country) ==
    [ cpi_score |-> Num(650),
      data_source |-> "Fallback Data (Scraping Failed)",
      note |-> country ]

\* the dict of the first element that names the country and holds a number,
\* else None (the empty dict here: both are falsy)
scrape_cpi_data(soup, country) ==
    IF soup.country /\ soup.value # None
    THEN [ cpi_score |-> soup.value,
           data_source |-> "Transparency International CPI (Scraped)" ]
    ELSE EmptyDict

get_corruption_data(country, f) ==
    LET soup == get_checked_soup(f)
        cpi_data == scrape_cpi_data(soup.value, country)
    IN  except_Exception(
            IF IsRaised(soup) THEN soup
            ELSE IF Truthy(cpi_data) THEN Return(cpi_data)
            ELSE Return(get_fallback_corruption_data(country)),
            get_fallback_corruption_data(country))

\* mutant: a fallback rate of 15.0
get_fallback_traffic_data_15(country) ==
    [ road_traffic_deaths_per_100k |-> Num(150),
      data_source |-> "Fallback Data (Scraping Failed)",
      data_quality |-> "Estimated",
      note |-> country ]

get_fallback_traffic_data(country) ==
    [ road_traffic_deaths_per_100k |-> Num(120),
      data_source |-> "Fallback Data (Scraping Failed)",
      data_quality |-> "Estimated",
      note |-> country ]

scrape_traffic_data(soup, country) ==
    IF soup.country /\ soup.value # None
    THEN [ road_traffic_deaths_per_100k |-> soup.value,
           data_source |-> "WHO Global Health Observatory (Scraped)",
           data_quality |-> "Scraped data" ]
    ELSE EmptyDict

\* mutant: no try/except around the fetch: its exception reaches the caller
get_traffic_safety_data_unguarded(country, f) ==
    LET soup == get_checked_soup(f)
        traffic_data == scrape_traffic_data(soup.value, country)
    IN  IF IsRaised(soup) THEN soup
        ELSE IF Truthy(traffic_data) THEN Return(traffic_data)
        ELSE Return(get_fallback_traffic_data(country))

get_traffic_safety_data(country, f) ==
    LET soup == get_checked_soup(f)
        traffic_data == scrape_traffic_data(soup.value, country)
    IN  except_Exception(
            IF IsRaised(soup) THEN soup
            ELSE IF Truthy(traffic_data) THEN Return(traffic_data)
            ELSE Return(get_fallback_traffic_data(country)),
            get_fallback_traffic_data(country))

get_fallback_healthcare_data(country) ==
    [ healthcare_access_quality_index |-> Num(650),
      data_sources |-> <<"Fallback Data (Scraping Failed)">>,
      note |-> country ]

\* healthcare_index starts at 70.0 and is overwritten by a number found next
\* to the country's name; the dict is built whether or not one was found
scrape_healthcare_data(soup, country) ==
    [ healthcare_access_quality_index |->
          IF soup.country /\ soup.value # None THEN soup.value ELSE Num(700),
      data_sources |-> <<"WHO Health Statistics (Scraped)",
                         "Global Health Security Index",
                         "Healthcare Access and Quality Index">> ]

get_healthcare_data(country, f) ==
    LET soup == get_checked_soup(f)
        healthcare_data == scrape_healthcare_data(soup.value, country)
    IN  except_Exception(
            IF IsRaised(soup) THEN soup
            ELSE IF Truthy(healthcare_data) THEN Return(healthcare_data)
            ELSE Return(get_fallback_healthcare_data(country)),
            get_fallback_healthcare_data(country))

get_fallback_infrastructure_data(country) ==
    [ message |-> country,
      data_sources_to_check |-> <<"MOFA", "WHO", "World Bank", "political risk">> ]

\* the first exception among the results of the calls made in a dict display,
\* else Return(d)
FirstRaised(results, d) ==
    IF \E i \in DOMAIN results : IsRaised(results[i])
    THEN results[CHOOSE i \in DOMAIN results :
                    /\ IsRaised(results[i])
                    /\ \A j \in DOMAIN results : IsRaised(results[j]) => i <= j]
    ELSE Return(d)

\* mutant: the handler's dict without the fallback data
error_result_bare(country, fallback_data) ==
    [ country |-> country, error |-> "data fetch error" ]

\* the dict the handler of an evaluator returns
error_result(country, fallback_data) ==
    [ country |-> country,
      error |-> "data fetch error",
      fallback_data |-> fallback_data ]

\* the body of get_infrastructure_data, given what the calls of the three
\* provider functions gave (a returned bundle or a raised exception)
get_infrastructure_data_from(country, corruption, traffic, healthcare) ==
    LET result == [ country |-> country,
                    corruption_perception_index |-> corruption.value,
                    traffic_safety_data |-> traffic.value,
                    healthcare_system |-> healthcare.value,
                    overall_infrastructure_score |-> 0 ]
    IN  except_Exception(
            FirstRaised(<<corruption, traffic, healthcare>>,
                [result EXCEPT !.overall_infrastructure_score =
                                   calculate_infrastructure_score(result)]),
            error_result(country, get_fallback_infrastructure_data(country)))

\* n holds the fetches of the three providers
get_infrastructure_data(country, n) ==
    get_infrastructure_data_from(country,
        get_corruption_data(country, n.cpi),
        get_traffic_safety_data(country, n.traffic),
        get_healthcare_data(country, n.healthcare))

(***************************************************************************)
(* Law enforcement: providers, default tables and evaluator                *)
(***************************************************************************)

get_default_gpi_data(country) ==
    [ country |-> country,
      peace_score |-> Num(20),
      police_reliability_score |-> Num(25),
      security_officers_and_police |-> Num(25),
      data_source |-> "Default GPI estimates",
      confidence_level |-> "Low",
      note |-> "Real data could not be retrieved" ]

\* law_agent's extract_gpi_data.  soup.value is the table row naming police
\* and security, soup.other the peace score.  The key
\* security_officers_and_police is always in the dict, so the default of
\* .get(..., 2.5) is never taken.
law_extract_gpi_data(soup, country) ==
    LET gpi_data == [ country |-> country,
                      peace_score |-> soup.other,
                      police_reliability_score |-> None,
                      security_officers_and_police |-> soup.value,
                      data_source |-> "Global Peace Index - Vision of Humanity",
                      confidence_level |-> "Medium" ]
    IN  IF gpi_data.police_reliability_score = None
        THEN [gpi_data EXCEPT !.police_reliability_score =
                  Get(gpi_data, "security_officers_and_police", Num(25))]
        ELSE gpi_data

\* f_maps is the fetch of the map page (page.country: a link naming the
\* country is there), f_country the fetch of the page the link leads to
get_gpi_law_enforcement_data(country, f_maps, f_country) ==
    LET soup == session_get_soup(f_maps)
        country_soup == session_get_soup(f_country)
    IN  except_Exception(
            IF IsRaised(soup) THEN soup
            ELSE IF soup.value.country
                 THEN IF IsRaised(country_soup) THEN country_soup
                      ELSE Return(law_extract_gpi_data(country_soup.value, country))
                 ELSE Return(get_default_gpi_data(country)),
            get_default_gpi_data(country))

get_default_worldbank_data(country) ==
    [ country |-> country,
      rule_of_law_percentile |-> Num(600),
      control_of_corruption_percentile |-> Num(580),
      data_source |-> "Default World Bank estimates",
      note |-> "Real data could not be retrieved" ]

\* soup.value is the rule-of-law row, soup.other the control-of-corruption
\* row; the defaults are taken only when no percentile at all is truthy
extract_worldbank_data(soup, country) ==
    LET wb_data == [ country |-> country,
                     rule_of_law_percentile |-> soup.value,
                     control_of_corruption_percentile |-> soup.other,
                     data_source |-> "World Bank Worldwide Governance Indicators" ]
    IN  IF ~(TruthyNum(wb_data.rule_of_law_percentile)
               \/ TruthyNum(wb_data.control_of_corruption_percentile))
        THEN get_default_worldbank_data(country)
        ELSE wb_data

get_world_bank_governance_data(country, f) ==
    LET soup == session_get_soup(f)
    IN  except_Exception(
            IF IsRaised(soup) THEN soup
            ELSE Return(extract_worldbank_data(soup.value, country)),
            get_default_worldbank_data(country))

\* soup.value is the CPI score of the country's table row
scrape_transparency_international_data(country, f) ==
    LET soup == get_soup(f)
        corruption_score ==
            IF soup.value.country /\ soup.value.value # None
            THEN Num(1000 - soup.value.value[1]) ELSE None
    IN  except_Exception(
            IF IsRaised(soup) THEN soup
            ELSE Return([ corruption_perception |->
                              IF TruthyNum(corruption_score) THEN corruption_score
                              ELSE Num(300),
                          sources |-> <<"Transparency International CPI">> ]),
            [ corruption_perception |-> Num(300) ])

\* soup.value is the first percentage next to a mention of the police
scrape_gallup_trust_data(country, f) ==
    LET soup == get_soup(f)
        trust_score == soup.value.value
    IN  except_Exception(
            IF IsRaised(soup) THEN soup
            ELSE Return([ public_trust_score |->
                              IF TruthyNum(trust_score) THEN trust_score ELSE Num(650),
                          effectiveness_score |->
                              Num((IF TruthyNum(trust_score) THEN trust_score[1]
                                   ELSE 650) + 50),
                          sources |-> <<"Gallup World Poll">> ]),
            [ public_trust_score |-> Num(650) ])

\* soup.value is the safety score
scrape_oecd_safety_data(country, f) ==
    LET soup == get_soup(f)
        safety_data == IF soup.value.value # None
                       THEN [safety_score |-> soup.value.value] ELSE EmptyDict
    IN  except_Exception(
            IF IsRaised(soup) THEN soup
            ELSE Return([ reporting_rate |-> Get(safety_data, "safety_score", Num(680)),
                          satisfaction_rate |-> Get(safety_data, "safety_score", Num(650)),
                          sources |-> <<"OECD Better Life Index">> ]),
            [ reporting_rate |-> Num(680) ])

get_default_police_trust_data(country) ==
    [ country |-> country,
      public_trust_in_police |-> Num(650),
      police_effectiveness_rating |-> Num(700),
      corruption_in_police_force |-> Num(250),
      crime_reporting_rate |-> Num(680),
      victim_satisfaction_rate |-> Num(650),
      data_sources |-> <<"Default estimates">>,
      note |-> "Real data could not be retrieved" ]

get_police_trust_data(country, f_ti, f_gallup, f_oecd) ==
    LET ti_data == scrape_transparency_international_data(country, f_ti)
        gallup_data == scrape_gallup_trust_data(country, f_gallup)
        oecd_data == scrape_oecd_safety_data(country, f_oecd)
        trust_data == Update(Update(Update(EmptyDict, ti_data.value),
                                    gallup_data.value), oecd_data.value)
    IN  except_Exception(
            FirstRaised(<<ti_data, gallup_data, oecd_data>>,
                [ country |-> country,
                  public_trust_in_police |->
                      Get(trust_data, "public_trust_score", Num(650)),
                  police_effectiveness_rating |->
                      Get(trust_data, "effectiveness_score", Num(700)),
                  corruption_in_police_force |->
                      Get(trust_data, "corruption_perception", Num(250)),
                  crime_reporting_rate |-> Get(trust_data, "reporting_rate", Num(680)),
                  victim_satisfaction_rate |->
                      Get(trust_data, "satisfaction_rate", Num(650)),
                  data_sources |-> Get(trust_data, "sources", <<>>),
                  confidence_level |-> "Medium" ]),
            get_default_police_trust_data(country))

get_fallback_law_enforcement_data(country) ==
    [ message |-> country,
      data_sources_to_check |-> <<"MOFA", "World Bank", "Transparency International">> ]

\* the body of get_law_enforcement_data, given what the calls of the three
\* provider functions gave
get_law_enforcement_data_from(country, gpi, wb, police) ==
    LET result == [ country |-> country,
                    global_peace_index_data |-> gpi.value,
                    world_bank_governance |-> wb.value,
                    police_trust_indicators |-> police.value,
                    overall_law_enforcement_score |-> 0 ]
    IN  except_Exception(
            FirstRaised(<<gpi, wb, police>>,
                [result EXCEPT !.overall_law_enforcement_score =
                                   calculate_law_enforcement_score(result)]),
            error_result(country, get_fallback_law_enforcement_data(country)))

\* n holds the fetches of the three providers
get_law_enforcement_data(country, n) ==
    get_law_enforcement_data_from(country,
        get_gpi_law_enforcement_data(country, n.gpi_maps, n.gpi_country),
        get_world_bank_governance_data(country, n.wb),
        get_police_trust_data(country, n.ti, n.gallup, n.oecd))

(***************************************************************************)
(* Crime: providers, fallback tables and evaluator                         *)
(***************************************************************************)

get_fallback_numbeo_data(country) ==
    [ crime_index |-> Num(500),
      safety_index |-> Num(500),
      violent_crime_level |-> "Unknown",
      data_source |-> "Fallback Data (Numbeo unavailable)",
      note |-> country ]

\* the spellings of the country get_numbeo_crime_data tries, in order:
\* as given, spaces as "+", spaces as "-", spaces removed
country_variations(country) ==
    IF country = "United States"
    THEN <<"United States", "United+States", "United-States", "UnitedStates">>
    ELSE <<country, country, country, country>>

\* soup.value is the Crime Index row, soup.other the Safety Index row
extract_numbeo_crime_indices(soup) ==
    Update(IF soup.value # None THEN [crime_index |-> soup.value] ELSE EmptyDict,
           IF soup.other # None THEN [safety_index |-> soup.other] ELSE EmptyDict)

\* the loop over the spellings from the i-th on; fs[i] is the fetch made for
\* the i-th spelling.  A requests exception moves on to the next spelling, any
\* other exception leaves the loop.
RECURSIVE numbeo_variants(_, _, _)
numbeo_variants(country, fs, i) ==
    IF i > Len(country_variations(country))
    THEN Return(get_fallback_numbeo_data(country))
    ELSE LET soup == get_checked_soup(fs[i])
             crime_data == extract_numbeo_crime_indices(soup.value)
         IN  IF IsRaised(soup)
             THEN IF IsRequestException(soup.exception)
                  THEN numbeo_variants(country, fs, i + 1)
                  ELSE soup
             ELSE IF Truthy(crime_data) /\ TruthyNum(Get(crime_data, "crime_index", None))
                  THEN Return(Update(crime_data,
                           [ data_source |-> "Numbeo Crime Database",
                             country_variant_used |-> country_variations(country)[i] ]))
                  ELSE numbeo_variants(country, fs, i + 1)

get_numbeo_crime_data(country, fs) ==
    except_Exception(numbeo_variants(country, fs, 1), get_fallback_numbeo_data(country))

\* soup.country: the country's name is in the page text; soup.value: the
\* highest danger level the page text names (None: no level)
extract_mofa_safety_level(soup, country) ==
    IF soup.country
    THEN IF soup.value = Num(4) THEN [rank |-> 150, score |-> Num(40)]
         ELSE IF soup.value = Num(3) THEN [rank |-> 120, score |-> Num(35)]
         ELSE IF soup.value = Num(2) THEN [rank |-> 80, score |-> Num(30)]
         ELSE IF soup.value = Num(1) THEN [rank |-> 40, score |-> Num(20)]
         ELSE [rank |-> 20, score |-> Num(15)]
    ELSE [rank |-> 50, score |-> Num(20)]

get_mofa_safety_info(country, f) ==
    LET soup == get_soup(f)
        safety_level == extract_mofa_safety_level(soup.value, country)
    IN  except_Exception(
            IF IsRaised(soup) THEN soup
            ELSE Return([ estimated_rank |-> Get(safety_level, "rank", 50),
                          peace_score |-> Get(safety_level, "score", Num(20)),
                          source |-> "MOFA" ]),
            EmptyDict)

\* crime_agent's extract_gpi_data: the page itself is not read
crime_extract_gpi_data(soup, country, f_mofa) ==
    LET mofa_data == get_mofa_safety_info(country, f_mofa)
    IN  except_Exception(
            IF IsRaised(mofa_data) THEN mofa_data
            ELSE IF Truthy(mofa_data.value)
            THEN Return([ overall_peace_rank |-> Get(mofa_data.value, "estimated_rank", 50),
                          peace_score |-> Get(mofa_data.value, "peace_score", Num(20)),
                          weapons_access |-> Num(20) ])
            ELSE Return(EmptyDict),
            EmptyDict)

get_fallback_gpi_data(country) ==
    [ overall_peace_rank |-> 50,
      peace_score |-> Num(20),
      weapons_access |-> Num(20),
      data_source |-> "Fallback Data (GPI unavailable)",
      note |-> country ]

get_global_peace_index_data(country, f, f_mofa) ==
    LET soup == get_checked_soup(f)
        gpi_data == crime_extract_gpi_data(soup.value, country, f_mofa)
    IN  except_Exception(
            IF IsRaised(soup) THEN soup
            ELSE IF IsRaised(gpi_data) THEN gpi_data
            ELSE IF Truthy(gpi_data.value)
            THEN Return(Update(gpi_data.value,
                     [ data_source |-> "Global Peace Index 2024" ]))
            ELSE Return(get_fallback_gpi_data(country)),
            get_fallback_gpi_data(country))

\* the regional_rates table, for the countries the model calls with
regional_rates ==
    [ japan |-> 3, united_states |-> 58, mexico |-> 250 ]

country_lower(country) ==
    IF country = "Japan" THEN "japan"
    ELSE IF country = "United States" THEN "united_states"
    ELSE IF country = "Mexico" THEN "mexico"
    ELSE "other"

estimate_homicide_rate_by_region(country) ==
    LET homicide_rate == Get(regional_rates, country_lower(country), 80)
    IN  [ homicide_rate |-> Num(homicide_rate),
          total_cases |-> homicide_rate * 10,
          year |-> 2023 ]

estimate_mortality_by_region(country) == estimate_homicide_rate_by_region(country)

classify_homicide_rate(rate) ==
    IF rate < 10 THEN "Very low homicide rate country"
    ELSE IF rate < 50 THEN "Low homicide rate country"
    ELSE IF rate < 150 THEN "Medium homicide rate country"
    ELSE IF rate < 300 THEN "High homicide rate country"
    ELSE "Very high homicide rate country"

\* the response is not read: only an exception of the request matters
get_who_mortality_data(country, f) ==
    except_Exception(
        IF f.exc # "none" THEN Raised(f.exc)
        ELSE Return(estimate_mortality_by_region(country)),
        EmptyDict)

extract_unodc_homicide_data(soup, country, f_who) ==
    LET who_data == get_who_mortality_data(country, f_who)
    IN  except_Exception(
            IF IsRaised(who_data) THEN who_data
            ELSE IF Truthy(who_data.value)
            THEN Return([ homicide_rate_per_100k |->
                              Get(who_data.value, "homicide_rate", Num(50)),
                          total_homicides |-> Get(who_data.value, "total_cases", 0),
                          year |-> Get(who_data.value, "year", 2023),
                          comparative_ranking |-> classify_homicide_rate(
                              Get(who_data.value, "homicide_rate", Num(50))[1]) ])
            ELSE Return(estimate_homicide_rate_by_region(country)),
            EmptyDict)

get_fallback_unodc_data(country) ==
    LET estimated_data == estimate_homicide_rate_by_region(country)
    IN  [ homicide_rate_per_100k |-> Get(estimated_data, "homicide_rate", Num(50)),
          total_homicides |-> Get(estimated_data, "total_cases", 0),
          year |-> Get(estimated_data, "year", 2023),
          data_quality |-> "Estimated",
          data_source |-> "Regional estimates (UNODC unavailable)",
          comparative_ranking |-> classify_homicide_rate(
              Get(estimated_data, "homicide_rate", Num(50))[1]),
          note |-> country ]

get_unodc_homicide_data(country, f, f_who) ==
    LET soup == get_checked_soup(f)
        homicide_data == extract_unodc_homicide_data(soup.value, country, f_who)
    IN  except_Exception(
            IF IsRaised(soup) THEN soup
            ELSE IF IsRaised(homicide_data) THEN homicide_data
            ELSE IF Truthy(homicide_data.value)
            THEN Return(Update(homicide_data.value,
                     [ data_source |-> "UNODC Global Study on Homicide",
                       data_quality |-> "High" ]))
            ELSE Return(get_fallback_unodc_data(country)),
            get_fallback_unodc_data(country))

get_fallback_crime_data(country) ==
    [ message |-> country,
      data_sources_to_check |-> <<"MOFA", "consulate", "international reports">> ]

\* the body of get_crime_data, given what the calls of the three provider
\* functions gave
get_crime_data_from(country, numbeo, gpi, unodc) ==
    LET result == [ country |-> country,
                    numbeo_data |-> numbeo.value,
                    global_peace_index |-> gpi.value,
                    unodc_homicide_rate |-> unodc.value,
                    overall_safety_score |-> 0 ]
    IN  except_Exception(
            FirstRaised(<<numbeo, gpi, unodc>>,
                [result EXCEPT !.overall_safety_score = calculate_safety_score(result)]),
            error_result(country, get_fallback_crime_data(country)))

\* n holds the fetches of the three providers
get_crime_data(country, n) ==
    get_crime_data_from(country,
        get_numbeo_crime_data(country, n.numbeo),
        get_global_peace_index_data(country, n.gpi, n.mofa),
        get_unodc_homicide_data(country, n.unodc, n.who))

(***************************************************************************)
(* Conflict: the tool of the conflict agent                                *)
(***************************************************************************)

\* the table of the fifteen high-risk countries (the English names stand for
\* the Japanese-script keys of the table)
country_codes ==
    [ Yemen |-> "043", Syria |-> "051", Afghanistan |-> "041", Iraq |-> "045",
      Somalia |-> "110", Libya |-> "125", SouthSudan |-> "301",
      CentralAfrica |-> "112", Mali |-> "121", BurkinaFaso |-> "117",
      Ukraine |-> "182", Myanmar |-> "018", Pakistan |-> "011", Nigeria |-> "115",
      DRCongo |-> "103" ]

\* the URLs get_conflict_risk_info requests, in order
conflict_requests(country_name) ==
    IF country_name \in DOMAIN country_codes
    THEN <<"anzen.mofa.go.jp/info/pcinfectionspothazardinfo_" \o country_codes[country_name]>>
    ELSE <<>>

\* soup.value is the danger level the page names (None: "unknown").  The
\* result holds no score.
\* mutant: the response is checked with raise_for_status
get_conflict_risk_info_checked(country_name, f) ==
    LET in_table == country_name \in DOMAIN country_codes
        soup == get_checked_soup(f)
        result == [ status |-> "success",
                    data |-> EmptyDict,
                    high_risk_countries |-> DOMAIN country_codes ]
    IN  except_Exception(
            IF ~in_table THEN Return(result)
            ELSE IF IsRaised(soup) THEN soup
            ELSE Return([result EXCEPT !.data =
                     [ c \in {country_name} |->
                         [ country |-> country_name,
                           danger_level |-> soup.value.value ] ]]),
            [ status |-> "error",
              error |-> "exception",
              message |-> "fetch from the MOFA site failed" ])

get_conflict_risk_info(country_name, f) ==
    LET in_table == country_name \in DOMAIN country_codes
        soup == get_soup(f)
        result == [ status |-> "success",
                    data |-> EmptyDict,
                    high_risk_countries |-> DOMAIN country_codes ]
    IN  except_Exception(
            IF ~in_table THEN Return(result)
            ELSE IF f.exc # "none" THEN Raised(f.exc)
            ELSE IF f.status # 200 THEN Return(result)
            ELSE IF IsRaised(soup) THEN soup
            ELSE Return([result EXCEPT !.data =
                     [ c \in {country_name} |->
                         [ country |-> country_name,
                           danger_level |-> soup.value.value ] ]]),
            [ status |-> "error",
              error |-> "exception",
              message |-> "fetch from the MOFA site failed" ])

(***************************************************************************)
(* Risk classifiers of the crime and law-enforcement agents.  The labels   *)
(* of the source are rendered in English: High, Medium, Low; Moderate for  *)
(* the middle level and Standard for the best level of police reliability; *)
(* Good and Limited for the emergency support.  A comparison with None     *)
(* raises TypeError; the classifiers have no handler.                      *)
(***************************************************************************)

HighOrVeryHigh(numbeo, k) == Get(numbeo, k, "") \in {"High", "Very High"}

\* mutant: the limits counted in (>= 10, >= 5)
violent_crime_risk_by_homicide_inclusive(homicide_rate, risk) ==
    IF homicide_rate[1] >= 100 THEN "High"
    ELSE IF homicide_rate[1] >= 50 THEN "Medium"
    ELSE risk

\* violent_crime_risk after the homicide-rate branch, `risk' being its value
\* before
violent_crime_risk_by_homicide(homicide_rate, risk) ==
    IF homicide_rate[1] > 100 THEN "High"
    ELSE IF homicide_rate[1] > 50 THEN "Medium"
    ELSE risk

\* mutant: the middle homicide-rate branch appends a risk and no recommendation
analyze_travel_safety_risks_unpaired(crime_data) ==
    LET has_numbeo == Has(crime_data, "numbeo_data")
        numbeo == crime_data["numbeo_data"]
        has_unodc == Has(crime_data, "unodc_homicide_rate")
        homicide_rate == Get(crime_data["unodc_homicide_rate"],
                             "homicide_rate_per_100k", Num(0))
        pickpocket == has_numbeo /\ HighOrVeryHigh(numbeo, "pickpocket_probability")
        theft == has_numbeo /\ HighOrVeryHigh(numbeo, "theft_probability")
        assault == has_numbeo /\ HighOrVeryHigh(numbeo, "assault_probability")
        by_numbeo == IF assault THEN "High" ELSE "Low"
    IN  IF has_unodc /\ homicide_rate = None THEN Raised("TypeError")
        ELSE
        [ violent_crime_risk |->
              IF has_unodc THEN violent_crime_risk_by_homicide(homicide_rate, by_numbeo)
              ELSE by_numbeo,
          petty_crime_risk |-> "Medium",
          specific_risks |->
              (IF pickpocket THEN <<"pickpocket_high">> ELSE <<>>)
              \o (IF theft THEN <<"theft_high">> ELSE <<>>)
              \o (IF assault THEN <<"assault_high">> ELSE <<>>)
              \o (IF has_unodc /\ homicide_rate[1] > 100 THEN <<"homicide_high">>
                  ELSE IF has_unodc /\ homicide_rate[1] > 50 THEN <<"homicide_elevated">>
                  ELSE <<>>),
          recommendations |->
              (IF pickpocket THEN <<"spread_valuables">> ELSE <<>>)
              \o (IF theft THEN <<"use_hotel_safe">> ELSE <<>>)
              \o (IF assault THEN <<"avoid_going_out_at_night">> ELSE <<>>)
              \o (IF has_unodc /\ homicide_rate[1] > 100
                  THEN <<"stay_away_from_dangerous_areas">> ELSE <<>>) ]

analyze_travel_safety_risks(crime_data) ==
    LET has_numbeo == Has(crime_data, "numbeo_data")
        numbeo == crime_data["numbeo_data"]
        has_unodc == Has(crime_data, "unodc_homicide_rate")
        homicide_rate == Get(crime_data["unodc_homicide_rate"],
                             "homicide_rate_per_100k", Num(0))
        pickpocket == has_numbeo /\ HighOrVeryHigh(numbeo, "pickpocket_probability")
        theft == has_numbeo /\ HighOrVeryHigh(numbeo, "theft_probability")
        assault == has_numbeo /\ HighOrVeryHigh(numbeo, "assault_probability")
        by_numbeo == IF assault THEN "High" ELSE "Low"
    IN  IF has_unodc /\ homicide_rate = None THEN Raised("TypeError")
        ELSE
        [ violent_crime_risk |->
              IF has_unodc THEN violent_crime_risk_by_homicide(homicide_rate, by_numbeo)
              ELSE by_numbeo,
          petty_crime_risk |-> "Medium",
          specific_risks |->
              (IF pickpocket THEN <<"pickpocket_high">> ELSE <<>>)
              \o (IF theft THEN <<"theft_high">> ELSE <<>>)
              \o (IF assault THEN <<"assault_high">> ELSE <<>>)
              \o (IF has_unodc /\ homicide_rate[1] > 100
                  THEN <<"homicide_high">> ELSE <<>>),
          recommendations |->
              (IF pickpocket THEN <<"spread_valuables">> ELSE <<>>)
              \o (IF theft THEN <<"use_hotel_safe">> ELSE <<>>)
              \o (IF assault THEN <<"avoid_going_out_at_night">> ELSE <<>>)
              \o (IF has_unodc /\ homicide_rate[1] > 100
                  THEN <<"stay_away_from_dangerous_areas">> ELSE <<>>) ]

\* mutant: the limits counted in (>= 3.5, >= 2.5)
police_reliability_level_inclusive(police_reliability) ==
    IF police_reliability[1] >= 35 THEN "Low"
    ELSE IF police_reliability[1] >= 25 THEN "Moderate"
    ELSE "Standard"

police_reliability_level(police_reliability) ==
    IF police_reliability[1] > 35 THEN "Low"
    ELSE IF police_reliability[1] > 25 THEN "Moderate"
    ELSE "Standard"

corruption_risk_level(corruption_level) ==
    IF corruption_level[1] > 600 THEN "High"
    ELSE IF corruption_level[1] > 300 THEN "Medium"
    ELSE "Low"

judicial_system_trust(rule_of_law_percentile) ==
    IF rule_of_law_percentile[1] < 300 THEN "Low"
    ELSE IF rule_of_law_percentile[1] < 600 THEN "Moderate"
    ELSE "High"

analyze_law_enforcement_risks(law_data) ==
    LET has_gpi == Has(law_data, "global_peace_index_data")
        has_police == Has(law_data, "police_trust_indicators")
        has_wb == Has(law_data, "world_bank_governance")
        police_reliability ==
            Get(law_data["global_peace_index_data"], "police_reliability_score", Num(30))
        corruption_level ==
            Get(law_data["police_trust_indicators"], "corruption_in_police_force", Num(500))
        rule_of_law_percentile ==
            Get(law_data["world_bank_governance"], "rule_of_law_percentile", Num(500))
        police == IF has_gpi THEN police_reliability_level(police_reliability)
                  ELSE "Standard"
        corruption == IF has_police THEN corruption_risk_level(corruption_level)
                      ELSE "Low"
        judicial == IF has_wb THEN judicial_system_trust(rule_of_law_percentile)
                    ELSE "High"
    IN  IF \/ has_gpi /\ police_reliability = None
           \/ has_police /\ corruption_level = None
           \/ has_wb /\ rule_of_law_percentile = None
        THEN Raised("TypeError")
        ELSE
        [ police_reliability_level |-> police,
          corruption_risk_level |-> corruption,
          judicial_system_trust |-> judicial,
          specific_risks |->
              (IF police = "Low" THEN <<"police_unreliable">>
               ELSE IF police = "Moderate" THEN <<"police_response_uneven">> ELSE <<>>)
              \o (IF corruption = "High" THEN <<"bribery_high">>
                  ELSE IF corruption = "Medium" THEN <<"bribery_possible">> ELSE <<>>)
              \o (IF judicial = "Low" THEN <<"judiciary_not_independent">>
                  ELSE IF judicial = "Moderate" THEN <<"judiciary_unpredictable">>
                  ELSE <<>>),
          recommendations |->
              (IF police = "Low" THEN <<"contact_embassy_first">>
               ELSE IF police = "Moderate" THEN <<"consult_several_agencies">> ELSE <<>>)
              \o (IF corruption = "High" THEN <<"keep_records_refuse_demands">>
                  ELSE IF corruption = "Medium" THEN <<"follow_procedure_keep_receipts">>
                  ELSE <<>>)
              \o (IF judicial = "Low" THEN <<"seek_legal_support_at_once">>
                  ELSE IF judicial = "Moderate" THEN <<"research_legal_requirements">>
                  ELSE <<>>),
          emergency_support_availability |->
              IF police = "Low" THEN "Limited" ELSE "Good" ]

(***************************************************************************)
(* The inputs the specifications enumerate                                 *)
(***************************************************************************)

\* Rates per 100k have no upper limit: the model takes them up to 5.0 * MaxRateK.
MaxRateK == 7

RateGrid == {50 * k : k \in 0..MaxRateK}

\* percentage-like metrics, 0..100, with the fallback values 25.0 and 65.0
PctGrid == {100 * k : k \in 0..10} \cup {250, 650}

\* values a scraper can deliver outside the nominal range (a float() of any
\* number on the page)
PctOutOfRange == {1050, 1500}

Optional(S) == {Num(v) : v \in S} \cup {None}

CpiValues       == Optional(PctGrid \cup PctOutOfRange)
TrafficValues   == Optional(RateGrid \cup {120})
HealthValues    == Optional(PctGrid \cup PctOutOfRange)
\* police_reliability_score, nominally 1..5
PoliceValues    == Optional({10, 15, 20, 25, 30, 35, 40, 45, 50} \cup {0, 60})
RuleOfLawValues == Optional(PctGrid \cup PctOutOfRange)
TrustValues     == Optional(PctGrid)
CorruptionValues == Optional(PctGrid)
SafetyIndexValues == Optional(PctGrid \cup PctOutOfRange)
PeaceValues     == Optional({10, 15, 20, 30, 35, 40, 50, 60})
HomicideValues  == Optional(RateGrid \cup {3, 58, 80, 250})

\* the dicts with key k bound to a value of S, and the dict without the key
OneKey(k, S) == {[x \in {k} |-> v] : v \in S} \cup {EmptyDict}

\* a category dict holding the provider keys of P
ProviderDict(P, K1, a, K2, b, K3, c) ==
    [k \in P \cap {K1, K2, K3} |-> IF k = K1 THEN a ELSE IF k = K2 THEN b ELSE c]

PoliceTrustBundles ==
    { Update(a, b) : a \in OneKey("public_trust_in_police", TrustValues),
                     b \in OneKey("corruption_in_police_force", CorruptionValues) }

InfraKeys == {"corruption_perception_index", "traffic_safety_data", "healthcare_system"}
LawKeys == {"global_peace_index_data", "world_bank_governance", "police_trust_indicators"}
CrimeKeys == {"numbeo_data", "global_peace_index", "unodc_homicide_rate"}

\* the keys a caller may put in the score map, and the scores it may give
ScoreKeys == {"conflict", "crime", "infrastructure", "law_enforcement", "extra"}
ScoreValues == {-10, 0, 75, 125, 158, 250, 251, 433}

\* the countries the calls are made with: two of the regional table, one with
\* a space in its name, one no table knows, one of country_codes
Countries == {"Japan", "Mexico", "United States", "Atlantis", "Yemen"}

\* the failures of a request, the error statuses of a response
RequestFailures == {"ConnectionError", "Timeout"}
ErrorStatuses == {404, 503}

\* a page without the country, a page the parser rejects
EmptyPage == Page("ok", FALSE, None, None)
BadPage == Page("raises", FALSE, None, None)

\* pages for a scraper of one metric: rejected, without the country, with the
\* country but no number, with the country and a number of V
PagesOf(V) ==
    {BadPage, EmptyPage, Page("ok", TRUE, None, None)}
        \cup {Page("ok", TRUE, Num(v), None) : v \in V}

\* pages for a scraper of two metrics
PagesOf2(V, O) ==
    {BadPage} \cup {Page("ok", TRUE, v, o) : v \in Optional(V), o \in Optional(O)}

\* every outcome of a fetch of one of the pages: the request fails, the
\* response has an error status (and a page without data), or it is a page
Fetches(pages) ==
    {Fetch(e, 0, EmptyPage) : e \in RequestFailures}
        \cup {Fetch("none", s, EmptyPage) : s \in ErrorStatuses}
        \cup {Fetch("none", 200, p) : p \in pages}

\* the numbers the pages hold, per scraper
CpiScraped == {0, 400, 1000, 1500}
TrafficScraped == {0, 50, 250, 50 * MaxRateK}
HealthScraped == {0, 400, 900}
PoliceScraped == {10, 30, 50}
RuleOfLawScraped == {0, 300, 900}
ControlOfCorruptionScraped == {0, 500}
TiScraped == {0, 400, 1000}
GallupScraped == {0, 400, 900}
OecdScraped == {700}
CrimeIndexScraped == {0, 300}
SafetyIndexScraped == {700}
MofaLevels == {1, 2, 3, 4}

\* the outcomes the evaluator calls draw a provider's fetch from: a failed
\* request, an error status, a rejected page, no data, data
FewFetches(V) ==
    { Fetch("ConnectionError", 0, EmptyPage), Fetch("none", 503, EmptyPage),
      Fetch("none", 200, BadPage), Fetch("none", 200, EmptyPage) }
        \cup {Fetch("none", 200, Page("ok", TRUE, Num(v), None)) : v \in V}

\* the fetches of the four spellings: the first, and the rest alike
NumbeoFew ==
    { Fetch("Timeout", 0, EmptyPage), Fetch("none", 404, EmptyPage),
      Fetch("none", 200, BadPage),
      Fetch("none", 200, Page("ok", TRUE, Num(300), None)),
      Fetch("none", 200, Page("ok", TRUE, Num(300), Num(700))) }

\* the inputs of the risk classifiers: each metric just below, at and just
\* above the limits of its classifier, and None
Around(limits) == UNION {{t - 1, t, t + 1} : t \in limits}

HomicideRiskValues == Optional(Around({50, 100}) \cup {0, 70, 150})
CpiRiskValues == Optional(Around({400, 600}) \cup {0, 1000})
TrafficRiskValues == Optional(Around({100, 200}) \cup {0})
HealthRiskValues == Optional(Around({500, 700}) \cup {0, 1000})
PoliceRiskValues == Optional(Around({25, 35}) \cup {10, 50})
CorruptionRiskValues == Optional(Around({300, 600}) \cup {0, 1000})
RuleOfLawRiskValues == Optional(Around({300, 600}) \cup {0, 1000})

\* what numbeo_data may say about the probabilities of crimes
NumbeoSignals ==
    { EmptyDict,
      [crime_index |-> Num(300), safety_index |-> Num(700)],
      [assault_probability |-> "High"],
      [assault_probability |-> "Low", pickpocket_probability |-> "Very High"],
      [theft_probability |-> "High", assault_probability |-> "Very High"],
      [pickpocket_probability |-> "High", theft_probability |-> "Very High",
       assault_probability |-> "High"] }

(***************************************************************************)
(* State: the library is stateless and every call is independent, so a     *)
(* behaviour is one call.  The state holds the function called, its        *)
(* argument, the outcomes of the HTTP fetches it issued, and what it       *)
(* returned.                                                               *)
(***************************************************************************)
VARIABLES fn, arg, net, ret

vars == <<fn, arg, net, ret>>

Init ==
    /\ fn = "none"
    /\ arg = EmptyDict
    /\ net = EmptyDict
    /\ ret = EmptyDict

CallCalculateInfrastructureScore ==
    /\ fn = "none"
    /\ \E P \in SUBSET InfraKeys,
       a \in OneKey("cpi_score", CpiValues),
       b \in OneKey("road_traffic_deaths_per_100k", TrafficValues),
       c \in OneKey("healthcare_access_quality_index", HealthValues) :
        LET d == ProviderDict(P, "corruption_perception_index", a,
                              "traffic_safety_data", b, "healthcare_system", c)
        IN  /\ fn' = "calculate_infrastructure_score"
            /\ arg' = d
            /\ net' = EmptyDict
            /\ ret' = Return(calculate_infrastructure_score(d))

CallCalculateLawEnforcementScore ==
    /\ fn = "none"
    /\ \E P \in SUBSET LawKeys,
       a \in OneKey("police_reliability_score", PoliceValues),
       b \in OneKey("rule_of_law_percentile", RuleOfLawValues),
       c \in PoliceTrustBundles :
        LET d == ProviderDict(P, "global_peace_index_data", a,
                              "world_bank_governance", b, "police_trust_indicators", c)
        IN  /\ fn' = "calculate_law_enforcement_score"
            /\ arg' = d
            /\ net' = EmptyDict
            /\ ret' = Return(calculate_law_enforcement_score(d))

CallCalculateSafetyScore ==
    /\ fn = "none"
    /\ \E P \in SUBSET CrimeKeys,
       a \in OneKey("safety_index", SafetyIndexValues),
       b \in OneKey("peace_score", PeaceValues),
       c \in OneKey("homicide_rate_per_100k", HomicideValues) :
        LET d == ProviderDict(P, "numbeo_data", a,
                              "global_peace_index", b, "unodc_homicide_rate", c)
        IN  /\ fn' = "calculate_safety_score"
            /\ arg' = d
            /\ net' = EmptyDict
            /\ ret' = Return(calculate_safety_score(d))

NextScore ==
    \/ CallCalculateInfrastructureScore
    \/ CallCalculateLawEnforcementScore
    \/ CallCalculateSafetyScore

SpecScore == Init /\ [][NextScore]_vars

CallCalculateTotalScore ==
    /\ fn = "none"
    /\ \E K \in SUBSET ScoreKeys :
         \E scores \in [K -> ScoreValues] :
            /\ fn' = "calculate_total_score"
            /\ arg' = scores
            /\ net' = EmptyDict
            /\ ret' = calculate_total_score(scores)

\* get_safety_level, called on any total, or on the total just computed
CallGetSafetyLevel ==
    \/ /\ fn = "none"
       /\ \E total_score \in 0..1000 :
            /\ fn' = "get_safety_level"
            /\ arg' = [total_score |-> total_score]
            /\ net' = EmptyDict
            /\ ret' = Return(get_safety_level(total_score))
    \/ /\ fn = "calculate_total_score"
       /\ ~IsRaised(ret)
       /\ fn' = "get_safety_level"
       /\ arg' = [scores |-> arg, total_score |-> ret.value]
       /\ net' = EmptyDict
       /\ ret' = Return(get_safety_level(ret.value))

NextComposite ==
    \/ CallCalculateTotalScore
    \/ CallGetSafetyLevel

SpecComposite == Init /\ [][NextComposite]_vars

(***************************************************************************)
(* The providers, each called on its own                                   *)
(***************************************************************************)

CallGetCorruptionData ==
    /\ fn = "none"
    /\ \E country \in Countries, f \in Fetches(PagesOf(CpiScraped)) :
         /\ fn' = "get_corruption_data"
         /\ arg' = [country |-> country]
         /\ net' = [cpi |-> f]
         /\ ret' = get_corruption_data(country, f)

CallGetTrafficSafetyData ==
    /\ fn = "none"
    /\ \E country \in Countries, f \in Fetches(PagesOf(TrafficScraped)) :
         /\ fn' = "get_traffic_safety_data"
         /\ arg' = [country |-> country]
         /\ net' = [traffic |-> f]
         /\ ret' = get_traffic_safety_data(country, f)

CallGetHealthcareData ==
    /\ fn = "none"
    /\ \E country \in Countries, f \in Fetches(PagesOf(HealthScraped)) :
         /\ fn' = "get_healthcare_data"
         /\ arg' = [country |-> country]
         /\ net' = [healthcare |-> f]
         /\ ret' = get_healthcare_data(country, f)

CallGetGpiLawEnforcementData ==
    /\ fn = "none"
    /\ \E country \in Countries,
          f_maps \in Fetches({BadPage, EmptyPage, Page("ok", TRUE, None, None)}),
          f_country \in Fetches(PagesOf(PoliceScraped)) :
         /\ fn' = "get_gpi_law_enforcement_data"
         /\ arg' = [country |-> country]
         /\ net' = [gpi_maps |-> f_maps, gpi_country |-> f_country]
         /\ ret' = get_gpi_law_enforcement_data(country, f_maps, f_country)

CallGetWorldBankGovernanceData ==
    /\ fn = "none"
    /\ \E country \in Countries,
          f \in Fetches(PagesOf2(RuleOfLawScraped, ControlOfCorruptionScraped)) :
         /\ fn' = "get_world_bank_governance_data"
         /\ arg' = [country |-> country]
         /\ net' = [wb |-> f]
         /\ ret' = get_world_bank_governance_data(country, f)

CallGetPoliceTrustData ==
    /\ fn = "none"
    /\ \E country \in Countries,
          f_ti \in Fetches(PagesOf(TiScraped)),
          f_gallup \in Fetches(PagesOf(GallupScraped)),
          f_oecd \in Fetches(PagesOf(OecdScraped)) :
         /\ fn' = "get_police_trust_data"
         /\ arg' = [country |-> country]
         /\ net' = [ti |-> f_ti, gallup |-> f_gallup, oecd |-> f_oecd]
         /\ ret' = get_police_trust_data(country, f_ti, f_gallup, f_oecd)

CallGetNumbeoCrimeData ==
    /\ fn = "none"
    /\ \E country \in {"Japan", "United States"},
          fs \in [1..4 -> {Fetch(e, 0, EmptyPage) : e \in RequestFailures}
                            \cup {Fetch("none", 404, EmptyPage)}
                            \cup {Fetch("none", 200, p) :
                                    p \in PagesOf2(CrimeIndexScraped, SafetyIndexScraped)}] :
         /\ fn' = "get_numbeo_crime_data"
         /\ arg' = [country |-> country]
         /\ net' = [numbeo |-> fs]
         /\ ret' = get_numbeo_crime_data(country, fs)

CallGetGlobalPeaceIndexData ==
    /\ fn = "none"
    /\ \E country \in Countries,
          f \in Fetches({BadPage, EmptyPage}),
          f_mofa \in Fetches(PagesOf(MofaLevels)) :
         /\ fn' = "get_global_peace_index_data"
         /\ arg' = [country |-> country]
         /\ net' = [gpi |-> f, mofa |-> f_mofa]
         /\ ret' = get_global_peace_index_data(country, f, f_mofa)

CallGetUnodcHomicideData ==
    /\ fn = "none"
    /\ \E country \in Countries,
          f \in Fetches({BadPage, EmptyPage}),
          f_who \in Fetches({EmptyPage}) :
         /\ fn' = "get_unodc_homicide_data"
         /\ arg' = [country |-> country]
         /\ net' = [unodc |-> f, who |-> f_who]
         /\ ret' = get_unodc_homicide_data(country, f, f_who)

NextProvider ==
    \/ CallGetCorruptionData
    \/ CallGetTrafficSafetyData
    \/ CallGetHealthcareData
    \/ CallGetGpiLawEnforcementData
    \/ CallGetWorldBankGovernanceData
    \/ CallGetPoliceTrustData
    \/ CallGetNumbeoCrimeData
    \/ CallGetGlobalPeaceIndexData
    \/ CallGetUnodcHomicideData

SpecProvider == Init /\ [][NextProvider]_vars

(***************************************************************************)
(* The category evaluators (the tools of the four gathering agents) and    *)
(* the risk classifier run on an evaluator's result                        *)
(***************************************************************************)

CallGetInfrastructureData ==
    /\ fn = "none"
    /\ \E country \in Countries,
          f_cpi \in Fetches(PagesOf(CpiScraped)),
          f_traffic \in Fetches(PagesOf(TrafficScraped)),
          f_healthcare \in Fetches(PagesOf(HealthScraped)) :
         LET n == [cpi |-> f_cpi, traffic |-> f_traffic, healthcare |-> f_healthcare]
         IN  /\ fn' = "get_infrastructure_data"
             /\ arg' = [country |-> country]
             /\ net' = n
             /\ ret' = get_infrastructure_data(country, n)

CallAnalyzeInfrastructureRisks ==
    /\ fn = "get_infrastructure_data"
    /\ fn' = "analyze_infrastructure_risks"
    /\ arg' = [infra_data |-> ret.value]
    /\ net' = net
    /\ ret' = LET risk_analysis == analyze_infrastructure_risks(ret.value)
              IN  IF IsRaised(risk_analysis) THEN risk_analysis
                  ELSE Return(risk_analysis)

CallGetLawEnforcementData ==
    /\ fn = "none"
    /\ \E country \in {"Japan", "Atlantis"},
          f_maps \in FewFetches({}) \cup {Fetch("none", 200, Page("ok", TRUE, None, None))},
          f_country \in FewFetches({10, 50}),
          f_wb \in FewFetches({300})
                     \cup {Fetch("none", 200, Page("ok", TRUE, None, Num(500)))},
          f_ti \in FewFetches({400}),
          f_gallup \in FewFetches({900}),
          f_oecd \in {Fetch("Timeout", 0, EmptyPage),
                      Fetch("none", 200, Page("ok", TRUE, Num(700), None))} :
         LET n == [gpi_maps |-> f_maps, gpi_country |-> f_country, wb |-> f_wb,
                   ti |-> f_ti, gallup |-> f_gallup, oecd |-> f_oecd]
         IN  /\ fn' = "get_law_enforcement_data"
             /\ arg' = [country |-> country]
             /\ net' = n
             /\ ret' = get_law_enforcement_data(country, n)

CallGetCrimeData ==
    /\ fn = "none"
    /\ \E country \in Countries,
          f_first \in NumbeoFew, f_rest \in NumbeoFew,
          f_gpi \in FewFetches({}),
          f_mofa \in FewFetches({3}),
          f_unodc \in FewFetches({}),
          f_who \in {Fetch("ConnectionError", 0, EmptyPage),
                     Fetch("none", 503, EmptyPage), Fetch("none", 200, EmptyPage)} :
         LET n == [numbeo |-> <<f_first, f_rest, f_rest, f_rest>>,
                   gpi |-> f_gpi, mofa |-> f_mofa, unodc |-> f_unodc, who |-> f_who]
         IN  /\ fn' = "get_crime_data"
             /\ arg' = [country |-> country]
             /\ net' = n
             /\ ret' = get_crime_data(country, n)

CallAnalyzeLawEnforcementRisks ==
    /\ fn = "get_law_enforcement_data"
    /\ fn' = "analyze_law_enforcement_risks"
    /\ arg' = [law_data |-> ret.value]
    /\ net' = net
    /\ ret' = LET risk_analysis == analyze_law_enforcement_risks(ret.value)
              IN  IF IsRaised(risk_analysis) THEN risk_analysis
                  ELSE Return(risk_analysis)

CallAnalyzeTravelSafetyRisks ==
    /\ fn = "get_crime_data"
    /\ fn' = "analyze_travel_safety_risks"
    /\ arg' = [crime_data |-> ret.value]
    /\ net' = net
    /\ ret' = LET risk_analysis == analyze_travel_safety_risks(ret.value)
              IN  IF IsRaised(risk_analysis) THEN risk_analysis
                  ELSE Return(risk_analysis)

CallGetConflictRiskInfo ==
    /\ fn = "none"
    /\ \E country \in Countries \cup {"Syria"}, f \in Fetches(PagesOf(MofaLevels)) :
         /\ fn' = "get_conflict_risk_info"
         /\ arg' = [country_name |-> country]
         /\ net' = [conflict |-> f, requested |-> conflict_requests(country)]
         /\ ret' = get_conflict_risk_info(country, f)

NextEvaluator ==
    \/ CallGetInfrastructureData
    \/ CallAnalyzeInfrastructureRisks
    \/ CallGetLawEnforcementData
    \/ CallAnalyzeLawEnforcementRisks
    \/ CallGetCrimeData
    \/ CallAnalyzeTravelSafetyRisks
    \/ CallGetConflictRiskInfo

SpecEvaluator == Init /\ [][NextEvaluator]_vars

(***************************************************************************)
(* The pipeline of the root agent: the four gathering agents run in        *)
(* parallel, each calls its tool and stores what it has under its          *)
(* output_key; the synthesizer runs after all four.  Here `ret' is the     *)
(* session state and `net' the fetches of each agent.  The synthesizer is  *)
(* a language model; what the code offers it as composite scorer is        *)
(* calculate_total_score, applied here to the category scores the tools    *)
(* delivered.                                                              *)
(***************************************************************************)

\* how the fetches of one agent go: all fail to connect, all answer 503, or
\* all deliver a page with data
Weather == {"ConnectionError", "503", "data"}

FetchIn(weather, page) ==
    IF weather = "ConnectionError" THEN Fetch("ConnectionError", 0, EmptyPage)
    ELSE IF weather = "503" THEN Fetch("none", 503, EmptyPage)
    ELSE Fetch("none", 200, page)

InfraNet(w) ==
    [ cpi |-> FetchIn(w, Page("ok", TRUE, Num(400), None)),
      traffic |-> FetchIn(w, Page("ok", TRUE, Num(50), None)),
      healthcare |-> FetchIn(w, Page("ok", TRUE, Num(900), None)) ]

LawNet(w) ==
    [ gpi_maps |-> FetchIn(w, Page("ok", TRUE, None, None)),
      gpi_country |-> FetchIn(w, Page("ok", TRUE, Num(10), None)),
      wb |-> FetchIn(w, Page("ok", TRUE, Num(900), None)),
      ti |-> FetchIn(w, Page("ok", TRUE, Num(400), None)),
      gallup |-> FetchIn(w, Page("ok", TRUE, Num(900), None)),
      oecd |-> FetchIn(w, Page("ok", TRUE, Num(700), None)) ]

CrimeNet(w) ==
    [ numbeo |-> [i \in 1..4 |-> FetchIn(w, Page("ok", TRUE, Num(300), Num(700)))],
      gpi |-> FetchIn(w, EmptyPage),
      mofa |-> FetchIn(w, Page("ok", TRUE, Num(1), None)),
      unodc |-> FetchIn(w, EmptyPage),
      who |-> FetchIn(w, EmptyPage) ]

ConflictNet(w) == [ conflict |-> FetchIn(w, Page("ok", TRUE, Num(4), None)) ]

OutputKeys == {"conflict_info", "crime_info", "infra_info", "law_info"}

\* the country asked about: one the conflict tool has a code for, one it has not
PipelineCountries == {"Atlantis", "Yemen"}

\* An agent that has not run yet calls its tool and stores the result under
\* its output_key; all four agents are asked about the same country.
RunConflictInfoAgent ==
    /\ fn \in {"none", "safety_score_gatherer"}
    /\ "conflict_info" \notin DOMAIN ret
    /\ \E country \in PipelineCountries, w \in Weather :
        /\ fn = "safety_score_gatherer" => country = arg.country
        /\ fn' = "safety_score_gatherer"
        /\ arg' = [country |-> country]
        /\ net' = Update(net, [k \in {"conflict_info"} |-> ConflictNet(w)])
        /\ ret' = Update(ret, [k \in {"conflict_info"} |-> get_conflict_risk_info(country, ConflictNet(w).conflict).value])

RunCrimeAgent ==
    /\ fn \in {"none", "safety_score_gatherer"}
    /\ "crime_info" \notin DOMAIN ret
    /\ \E country \in PipelineCountries, w \in Weather :
        /\ fn = "safety_score_gatherer" => country = arg.country
        /\ fn' = "safety_score_gatherer"
        /\ arg' = [country |-> country]
        /\ net' = Update(net, [k \in {"crime_info"} |-> CrimeNet(w)])
        /\ ret' = Update(ret, [k \in {"crime_info"} |-> get_crime_data(country, CrimeNet(w)).value])

RunInfrastructureAgent ==
    /\ fn \in {"none", "safety_score_gatherer"}
    /\ "infra_info" \notin DOMAIN ret
    /\ \E country \in PipelineCountries, w \in Weather :
        /\ fn = "safety_score_gatherer" => country = arg.country
        /\ fn' = "safety_score_gatherer"
        /\ arg' = [country |-> country]
        /\ net' = Update(net, [k \in {"infra_info"} |-> InfraNet(w)])
        /\ ret' = Update(ret, [k \in {"infra_info"} |-> get_infrastructure_data(country, InfraNet(w)).value])

RunLawEnforcementAgent ==
    /\ fn \in {"none", "safety_score_gatherer"}
    /\ "law_info" \notin DOMAIN ret
    /\ \E country \in PipelineCountries, w \in Weather :
        /\ fn = "safety_score_gatherer" => country = arg.country
        /\ fn' = "safety_score_gatherer"
        /\ arg' = [country |-> country]
        /\ net' = Update(net, [k \in {"law_info"} |-> LawNet(w)])
        /\ ret' = Update(ret, [k \in {"law_info"} |-> get_law_enforcement_data(country, LawNet(w)).value])

\* the score field of each tool's result (the result of get_conflict_risk_info
\* has none), and the category scores found in the session state
ScoreKeyOf ==
    [ crime |-> <<"crime_info", "overall_safety_score">>,
      infrastructure |-> <<"infra_info", "overall_infrastructure_score">>,
      law_enforcement |-> <<"law_info", "overall_law_enforcement_score">> ]

category_scores(state) ==
    [ c \in {c \in DOMAIN ScoreKeyOf :
                /\ Has(state, ScoreKeyOf[c][1])
                /\ Has(state[ScoreKeyOf[c][1]], ScoreKeyOf[c][2])}
        |-> state[ScoreKeyOf[c][1]][ScoreKeyOf[c][2]] ]

RunSynthesizer ==
    /\ fn = "safety_score_gatherer"
    /\ DOMAIN ret = OutputKeys
    /\ fn' = "safety_score_synthesizer"
    /\ arg' = arg
    /\ net' = net
    /\ ret' = [ state |-> ret,
                scores |-> category_scores(ret),
                total |-> calculate_total_score(category_scores(ret)) ]

NextPipeline ==
    \/ RunConflictInfoAgent
    \/ RunCrimeAgent
    \/ RunInfrastructureAgent
    \/ RunLawEnforcementAgent
    \/ RunSynthesizer

SpecPipeline == Init /\ [][NextPipeline]_vars

(***************************************************************************)
(* The requests a provider puts on the wire.  Here `net' holds the log of  *)
(* the requests issued so far with the outcome of each, the URL the        *)
(* provider is at, the retries its HTTPAdapter has left for that URL, the  *)
(* spelling the numbeo loop is at, and where the provider stands.          *)
(***************************************************************************)

\* Retry(total=3, ...): a failed request is sent again up to three times
Retry_total == 3

\* get_corruption_data uses requests.get (no retries); the two law providers
\* a session whose adapter retries; get_numbeo_crime_data a loop of spellings
FetchingProviders ==
    { "get_corruption_data", "get_gpi_law_enforcement_data",
      "get_world_bank_governance_data", "get_numbeo_crime_data" }

SessionProviders == {"get_gpi_law_enforcement_data", "get_world_bank_governance_data"}

UrlOf(provider, country, variant) ==
    IF provider = "get_corruption_data"
    THEN <<"transparency.org", "/en/cpi/2023">>
    ELSE IF provider = "get_gpi_law_enforcement_data"
    THEN <<"visionofhumanity.org", "/maps/">>
    ELSE IF provider = "get_world_bank_governance_data"
    THEN <<"worldbank.org", "governance">>
    ELSE <<"numbeo.com", country_variations(country)[variant]>>

CountryPageUrl(country) == <<"visionofhumanity.org", country>>

\* what comes back for one request on the wire
WireOutcomes ==
    { Fetch("ConnectionError", 0, EmptyPage), Fetch("none", 503, EmptyPage),
      Fetch("none", 404, EmptyPage), Fetch("none", 200, EmptyPage),
      Fetch("none", 200, BadPage),
      Fetch("none", 200, Page("ok", TRUE, Num(0), Num(1000))),
      Fetch("none", 200, Page("ok", TRUE, Num(300), Num(700))) }

LastFetch == net.log[Len(net.log)].fetch

\* urllib3's Retry sends the request again after a connection failure or a
\* status of status_forcelist, while retries are left
AdapterRetries ==
    /\ fn \in SessionProviders
    /\ net.retries > 0
    /\ (LastFetch.exc # "none" \/ LastFetch.status \in status_forcelist)

\* the numbeo loop moves to the next spelling after a requests exception or
\* a page without a crime index
NumbeoMovesOn ==
    /\ fn = "get_numbeo_crime_data"
    /\ net.variant < Len(country_variations(arg.country))
    /\ IF IsRaised(get_checked_soup(LastFetch))
       THEN IsRequestException(get_checked_soup(LastFetch).exception)
       ELSE ~TruthyNum(LastFetch.page.value)

\* the map page arrived and holds a link naming the country
LinkFound ==
    /\ fn = "get_gpi_law_enforcement_data"
    /\ net.url = UrlOf(fn, arg.country, 1)
    /\ ~AdapterRetries
    /\ ~IsRaised(session_get_soup(LastFetch))
    /\ LastFetch.page.country

\* the last outcome the log holds for a URL (a page without data if the URL
\* was never requested)
FinalFetch(url) ==
    IF \E i \in DOMAIN net.log : net.log[i].url = url
    THEN net.log[CHOOSE i \in DOMAIN net.log :
                    /\ net.log[i].url = url
                    /\ \A j \in DOMAIN net.log : net.log[j].url = url => j <= i].fetch
    ELSE Fetch("none", 200, EmptyPage)

BundleReturned ==
    IF fn = "get_corruption_data"
    THEN get_corruption_data(arg.country, LastFetch)
    ELSE IF fn = "get_world_bank_governance_data"
    THEN get_world_bank_governance_data(arg.country, LastFetch)
    ELSE IF fn = "get_gpi_law_enforcement_data"
    THEN get_gpi_law_enforcement_data(arg.country,
             FinalFetch(UrlOf(fn, arg.country, 1)), FinalFetch(CountryPageUrl(arg.country)))
    ELSE get_numbeo_crime_data(arg.country,
             [i \in 1..4 |-> IF i <= Len(net.log) THEN net.log[i].fetch
                             ELSE Fetch("none", 200, EmptyPage)])

CallProvider ==
    /\ fn = "none"
    /\ \E provider \in FetchingProviders, country \in {"Japan", "United States"} :
         /\ fn' = provider
         /\ arg' = [country |-> country]
         /\ net' = [ log |-> <<>>,
                     url |-> UrlOf(provider, country, 1),
                     retries |-> IF provider \in SessionProviders THEN Retry_total ELSE 0,
                     variant |-> 1,
                     pc |-> "request" ]
         /\ ret' = EmptyDict

SendRequest ==
    /\ fn \in FetchingProviders
    /\ net.pc = "request"
    /\ \E f \in WireOutcomes :
         net' = [net EXCEPT !.log = Append(@, [url |-> net.url, fetch |-> f]),
                            !.pc = "response"]
    /\ UNCHANGED <<fn, arg, ret>>

RetryByAdapter ==
    /\ fn \in FetchingProviders
    /\ net.pc = "response"
    /\ AdapterRetries
    /\ net' = [net EXCEPT !.retries = @ - 1, !.pc = "request"]
    /\ UNCHANGED <<fn, arg, ret>>

TryNextSpelling ==
    /\ fn \in FetchingProviders
    /\ net.pc = "response"
    /\ NumbeoMovesOn
    /\ net' = [net EXCEPT !.variant = @ + 1,
                          !.url = UrlOf(fn, arg.country, net.variant + 1),
                          !.pc = "request"]
    /\ UNCHANGED <<fn, arg, ret>>

FollowCountryLink ==
    /\ fn \in FetchingProviders
    /\ net.pc = "response"
    /\ LinkFound
    /\ net' = [net EXCEPT !.url = CountryPageUrl(arg.country),
                          !.retries = Retry_total,
                          !.pc = "request"]
    /\ UNCHANGED <<fn, arg, ret>>

ReturnBundle ==
    /\ fn \in FetchingProviders
    /\ net.pc = "response"
    /\ ~AdapterRetries /\ ~NumbeoMovesOn /\ ~LinkFound
    /\ net' = [net EXCEPT !.pc = "done"]
    /\ ret' = BundleReturned
    /\ UNCHANGED <<fn, arg>>

NextFetch ==
    \/ CallProvider
    \/ SendRequest
    \/ RetryByAdapter
    \/ TryNextSpelling
    \/ FollowCountryLink
    \/ ReturnBundle

SpecFetch == Init /\ [][NextFetch]_vars

(***************************************************************************)
(* The risk classifiers, each called on its own                            *)
(***************************************************************************)

CallAnalyzeTravelSafetyRisksOn ==
    /\ fn = "none"
    /\ \E P \in SUBSET {"numbeo_data", "unodc_homicide_rate"},
          a \in NumbeoSignals,
          c \in OneKey("homicide_rate_per_100k", HomicideRiskValues) :
        LET d == ProviderDict(P, "numbeo_data", a, "global_peace_index", EmptyDict,
                              "unodc_homicide_rate", c)
            risk_analysis == analyze_travel_safety_risks(d)
        IN  /\ fn' = "analyze_travel_safety_risks"
            /\ arg' = d
            /\ net' = EmptyDict
            /\ ret' = IF IsRaised(risk_analysis) THEN risk_analysis
                      ELSE Return(risk_analysis)

CallAnalyzeInfrastructureRisksOn ==
    /\ fn = "none"
    /\ \E P \in SUBSET InfraKeys,
          a \in OneKey("cpi_score", CpiRiskValues),
          b \in OneKey("road_traffic_deaths_per_100k", TrafficRiskValues),
          c \in OneKey("healthcare_access_quality_index", HealthRiskValues) :
        LET d == ProviderDict(P, "corruption_perception_index", a,
                              "traffic_safety_data", b, "healthcare_system", c)
            risk_analysis == analyze_infrastructure_risks(d)
        IN  /\ fn' = "analyze_infrastructure_risks"
            /\ arg' = d
            /\ net' = EmptyDict
            /\ ret' = IF IsRaised(risk_analysis) THEN risk_analysis
                      ELSE Return(risk_analysis)

CallAnalyzeLawEnforcementRisksOn ==
    /\ fn = "none"
    /\ \E P \in SUBSET LawKeys,
          a \in OneKey("police_reliability_score", PoliceRiskValues),
          b \in OneKey("rule_of_law_percentile", RuleOfLawRiskValues),
          c \in OneKey("corruption_in_police_force", CorruptionRiskValues) :
        LET d == ProviderDict(P, "global_peace_index_data", a,
                              "world_bank_governance", b, "police_trust_indicators", c)
            risk_analysis == analyze_law_enforcement_risks(d)
        IN  /\ fn' = "analyze_law_enforcement_risks"
            /\ arg' = d
            /\ net' = EmptyDict
            /\ ret' = IF IsRaised(risk_analysis) THEN risk_analysis
                      ELSE Return(risk_analysis)

NextRisk ==
    \/ CallAnalyzeTravelSafetyRisksOn
    \/ CallAnalyzeInfrastructureRisksOn
    \/ CallAnalyzeLawEnforcementRisksOn

SpecRisk == Init /\ [][NextRisk]_vars

(***************************************************************************)
(* Two invocations of a category's score function and risk classifier.     *)
(* Here `fn' is the category, `arg' the sequence of the dicts passed so    *)
(* far and `ret' the sequence of what each invocation gave.  The dicts     *)
(* carry the time fields the evaluators and providers write with           *)
(* time.time() and time.strftime; the second invocation happens at the     *)
(* same or a later time, on the same metrics or with one metric changed.   *)
(***************************************************************************)

ScoredCategories == {"crime", "infrastructure", "law_enforcement"}

\* the fields written from the clock
TimestampFields == {"data_collection_timestamp", "scraped_at", "last_updated"}

\* the provider bundles of each category and the metrics its score reads
MetricsOf ==
    [ crime |-> {<<"numbeo_data", "safety_index">>,
                 <<"global_peace_index", "peace_score">>,
                 <<"unodc_homicide_rate", "homicide_rate_per_100k">>},
      infrastructure |-> {<<"corruption_perception_index", "cpi_score">>,
                          <<"traffic_safety_data", "road_traffic_deaths_per_100k">>,
                          <<"healthcare_system", "healthcare_access_quality_index">>},
      law_enforcement |-> {<<"global_peace_index_data", "police_reliability_score">>,
                           <<"world_bank_governance", "rule_of_law_percentile">>,
                           <<"police_trust_indicators", "public_trust_in_police">>,
                           <<"police_trust_indicators", "corruption_in_police_force">>} ]

BetterIsHigher ==
    {"safety_index", "cpi_score", "healthcare_access_quality_index",
     "rule_of_law_percentile", "public_trust_in_police"}

BetterIsLower ==
    {"homicide_rate_per_100k", "peace_score", "road_traffic_deaths_per_100k",
     "police_reliability_score", "corruption_in_police_force"}

\* the values of a metric: percentages, and rates on both sides of the rate
\* at which the component score reaches 0
PercentValues == {Num(0), Num(330), Num(1000)}
ValuesOfMetric(f) ==
    IF f = "homicide_rate_per_100k" THEN {Num(0), Num(70), Num(100), Num(150)}
    ELSE IF f = "peace_score" THEN {Num(10), Num(24), Num(50), Num(60)}
    ELSE IF f = "road_traffic_deaths_per_100k" THEN {Num(0), Num(150), Num(300), Num(350)}
    ELSE IF f = "police_reliability_score" THEN {Num(10), Num(25), Num(50), Num(60)}
    ELSE PercentValues

\* the bundle of provider k of a category: one value for each of its metrics
BundlesOfProvider(category, k) ==
    LET fields == {m[2] : m \in {x \in MetricsOf[category] : x[1] = k}}
    IN  {b \in [fields -> UNION {ValuesOfMetric(f) : f \in fields}] :
            \A f \in fields : b[f] \in ValuesOfMetric(f)}

\* the category dicts without their time fields: any of the providers'
\* bundles may be missing
MetricDicts(category) ==
    LET keys == {m[1] : m \in MetricsOf[category]}
    IN  UNION {{d \in [P -> UNION {BundlesOfProvider(category, k) : k \in P}] :
                   \A k \in P : d[k] \in BundlesOfProvider(category, k)} :
               P \in SUBSET keys}

\* the dict as collected at time t
Stamped(d, t) ==
    Update([k \in DOMAIN d |-> Update(d[k], [scraped_at |-> t, last_updated |-> t])],
           [data_collection_timestamp |-> t])

\* the raw metrics of a collected dict: everything but the time fields
RawMetrics(d) ==
    [k \in DOMAIN d \ TimestampFields |->
        [f \in DOMAIN d[k] \ TimestampFields |-> d[k][f]]]

\* the metrics on which two dicts with the same bundles differ
Differing(category, d1, d2) ==
    {m \in MetricsOf[category] : Has(d1, m[1]) /\ d1[m[1]][m[2]] # d2[m[1]][m[2]]}

\* what the score function and the risk classifier of the category give
ScoreAndRisks(category, d) ==
    IF category = "crime"
    THEN [score |-> calculate_safety_score(d),
          risk_analysis |-> analyze_travel_safety_risks(d)]
    ELSE IF category = "infrastructure"
    THEN [score |-> calculate_infrastructure_score(d),
          risk_analysis |-> analyze_infrastructure_risks(d)]
    ELSE [score |-> calculate_law_enforcement_score(d),
          risk_analysis |-> analyze_law_enforcement_risks(d)]

FirstInvocation ==
    /\ fn = "none"
    /\ \E category \in ScoredCategories :
         \E d \in MetricDicts(category) :
            /\ fn' = category
            /\ arg' = <<Stamped(d, 1)>>
            /\ net' = EmptyDict
            /\ ret' = <<ScoreAndRisks(category, Stamped(d, 1))>>

SecondInvocation ==
    /\ fn \in ScoredCategories
    /\ Len(arg) = 1
    /\ \E d \in MetricDicts(fn), t \in {1, 2} :
         /\ DOMAIN d = DOMAIN RawMetrics(arg[1])
         /\ Cardinality(Differing(fn, RawMetrics(arg[1]), d)) <= 1
         /\ fn' = fn
         /\ arg' = Append(arg, Stamped(d, t))
         /\ net' = net
         /\ ret' = Append(ret, ScoreAndRisks(fn, Stamped(d, t)))

NextTwice ==
    \/ FirstInvocation
    \/ SecondInvocation

SpecTwice == Init /\ [][NextTwice]_vars

(***************************************************************************)
(* The evaluators with provider functions replaced by mocks that raise,    *)
(* as the tests patch them (side_effect = Exception(...)).  net.patched    *)
(* names the replaced provider functions; the others run on the fetch      *)
(* net.fetch, which every request they make meets.                         *)
(***************************************************************************)

\* the call of provider function `name': the mock raises, the real one runs
Patched(patched, name, real) ==
    IF name \in patched THEN Raised("Exception") ELSE real

NetworkStates == Fetches(PagesOf({30}))

CallGetCrimeDataPatched ==
    /\ fn = "none"
    /\ \E country \in {"Japan", "Atlantis"}, f \in NetworkStates,
          patched \in SUBSET {"get_numbeo_crime_data", "get_global_peace_index_data",
                              "get_unodc_homicide_data"} :
         /\ fn' = "get_crime_data"
         /\ arg' = [country |-> country]
         /\ net' = [patched |-> patched, fetch |-> f]
         /\ ret' = get_crime_data_from(country,
                       Patched(patched, "get_numbeo_crime_data",
                               get_numbeo_crime_data(country, <<f, f, f, f>>)),
                       Patched(patched, "get_global_peace_index_data",
                               get_global_peace_index_data(country, f, f)),
                       Patched(patched, "get_unodc_homicide_data",
                               get_unodc_homicide_data(country, f, f)))

CallGetInfrastructureDataPatched ==
    /\ fn = "none"
    /\ \E country \in {"Japan", "Atlantis"}, f \in NetworkStates,
          patched \in SUBSET {"get_corruption_data", "get_traffic_safety_data",
                              "get_healthcare_data"} :
         /\ fn' = "get_infrastructure_data"
         /\ arg' = [country |-> country]
         /\ net' = [patched |-> patched, fetch |-> f]
         /\ ret' = get_infrastructure_data_from(country,
                       Patched(patched, "get_corruption_data",
                               get_corruption_data(country, f)),
                       Patched(patched, "get_traffic_safety_data",
                               get_traffic_safety_data(country, f)),
                       Patched(patched, "get_healthcare_data",
                               get_healthcare_data(country, f)))

CallGetLawEnforcementDataPatched ==
    /\ fn = "none"
    /\ \E country \in {"Japan", "Atlantis"}, f \in NetworkStates,
          patched \in SUBSET {"get_gpi_law_enforcement_data",
                              "get_world_bank_governance_data", "get_police_trust_data"} :
         /\ fn' = "get_law_enforcement_data"
         /\ arg' = [country |-> country]
         /\ net' = [patched |-> patched, fetch |-> f]
         /\ ret' = get_law_enforcement_data_from(country,
                       Patched(patched, "get_gpi_law_enforcement_data",
                               get_gpi_law_enforcement_data(country, f, f)),
                       Patched(patched, "get_world_bank_governance_data",
                               get_world_bank_governance_data(country, f)),
                       Patched(patched, "get_police_trust_data",
                               get_police_trust_data(country, f, f, f)))

NextPatched ==
    \/ CallGetCrimeDataPatched
    \/ CallGetInfrastructureDataPatched
    \/ CallGetLawEnforcementDataPatched

SpecPatched == Init /\ [][NextPatched]_vars

(***************************************************************************)
(* The parallel group of root_agent, step by step.  Each of the four       *)
(* agents of safety_score_gatherer calls its tool and, later, stores what  *)
(* it has under its output_key in the session state; the steps of the      *)
(* four agents interleave in every order.  safety_score_synthesizer, the   *)
(* second sub-agent of the SequentialAgent, reads the four keys its        *)
(* instruction names.  net.calls holds the tool call of each agent that    *)
(* has made it, net.stored the agents in the order they stored their       *)
(* output; `ret' is the session state.                                     *)
(***************************************************************************)

GatheringAgents == {"conflict_info_agent", "crime_agent", "infra_agent", "law_agent"}

\* mutant: law_agent stores under the key of infra_agent
output_key_shared(agent) ==
    IF agent = "conflict_info_agent" THEN "conflict_info"
    ELSE IF agent = "crime_agent" THEN "crime_info"
    ELSE "infra_info"

output_key(agent) ==
    IF agent = "conflict_info_agent" THEN "conflict_info"
    ELSE IF agent = "crime_agent" THEN "crime_info"
    ELSE IF agent = "infra_agent" THEN "infra_info"
    ELSE "law_info"

\* what the tool of an agent returns for the country when its fetches go as w
ToolResult(agent, country, w) ==
    IF agent = "conflict_info_agent"
    THEN get_conflict_risk_info(country, ConflictNet(w).conflict).value
    ELSE IF agent = "crime_agent" THEN get_crime_data(country, CrimeNet(w)).value
    ELSE IF agent = "infra_agent" THEN get_infrastructure_data(country, InfraNet(w)).value
    ELSE get_law_enforcement_data(country, LawNet(w)).value

GathererStarts ==
    /\ fn = "none"
    /\ \E country \in PipelineCountries :
         /\ fn' = "safety_score_gatherer"
         /\ arg' = [country |-> country]
         /\ net' = [calls |-> EmptyDict, stored |-> <<>>]
         /\ ret' = EmptyDict

AgentCallsTool ==
    /\ fn = "safety_score_gatherer"
    /\ \E agent \in GatheringAgents \ DOMAIN net.calls, w \in Weather :
         net' = [net EXCEPT !.calls =
                    Update(@, [a \in {agent} |->
                                  [weather |-> w,
                                   result |-> ToolResult(agent, arg.country, w)]])]
    /\ UNCHANGED <<fn, arg, ret>>

AgentStoresOutput ==
    /\ fn = "safety_score_gatherer"
    /\ \E agent \in DOMAIN net.calls :
         /\ \A i \in DOMAIN net.stored : net.stored[i] # agent
         /\ net' = [net EXCEPT !.stored = Append(@, agent)]
         /\ ret' = Update(ret, [k \in {output_key(agent)} |-> net.calls[agent].result])
    /\ UNCHANGED <<fn, arg>>

SynthesizerReads ==
    /\ fn = "safety_score_gatherer"
    /\ Len(net.stored) = Cardinality(GatheringAgents)
    /\ fn' = "safety_score_synthesizer"
    /\ ret' = [ state |-> ret,
                read |-> [k \in OutputKeys \cap DOMAIN ret |-> ret[k]] ]
    /\ UNCHANGED <<arg, net>>

NextParallel ==
    \/ GathererStarts
    \/ AgentCallsTool
    \/ AgentStoresOutput
    \/ SynthesizerReads

SpecParallel == Init /\ [][NextParallel]_vars

(***************************************************************************)
(* Properties                                                              *)
(***************************************************************************)

IsNumIn(v, lo, hi) == v # None /\ lo <= v[1] /\ v[1] <= hi
IsNumAtLeast(v, lo) == v # None /\ lo <= v[1]

\* metric f of provider bundle k, when the dict holds it, satisfies R
FieldInRange(d, k, f, lo, hi) ==
    (Has(d, k) /\ Has(d[k], f)) => IsNumIn(d[k][f], lo, hi)

InfraNominal(d) ==
    /\ FieldInRange(d, "corruption_perception_index", "cpi_score", 0, 1000)
    /\ (Has(d, "traffic_safety_data")
          /\ Has(d["traffic_safety_data"], "road_traffic_deaths_per_100k"))
        => IsNumAtLeast(d["traffic_safety_data"]["road_traffic_deaths_per_100k"], 0)
    /\ FieldInRange(d, "healthcare_system", "healthcare_access_quality_index", 0, 1000)

LawNominal(d) ==
    /\ FieldInRange(d, "global_peace_index_data", "police_reliability_score", 10, 50)
    /\ FieldInRange(d, "world_bank_governance", "rule_of_law_percentile", 0, 1000)
    /\ FieldInRange(d, "police_trust_indicators", "public_trust_in_police", 0, 1000)
    /\ FieldInRange(d, "police_trust_indicators", "corruption_in_police_force", 0, 1000)

\* C1: for every subset of provider bundles with every metric in its nominal
\* range, calculate_infrastructure_score and calculate_law_enforcement_score
\* return a value in [0, 25].
C1_ScoreInRange ==
    /\ (fn = "calculate_infrastructure_score" /\ InfraNominal(arg))
          => (0 <= ret.value /\ ret.value <= 250)
    /\ (fn = "calculate_law_enforcement_score" /\ LawNominal(arg))
          => (0 <= ret.value /\ ret.value <= 250)

\* all three infrastructure providers present, nominal metrics, and the score
\* at the bottom of the scale (the traffic component clamped at 0)
C1_Witness ==
    /\ fn = "calculate_infrastructure_score"
    /\ DOMAIN arg = InfraKeys
    /\ InfraNominal(arg)
    /\ arg["traffic_safety_data"] = [road_traffic_deaths_per_100k |-> Num(350)]
    /\ ret.value = 0

\* no provider bundle of d holds one of the metric fields the scorer reads
NoUsableMetric(d, fields) == \A k \in DOMAIN d : DOMAIN d[k] \cap fields = {}

InfraMetricFields ==
    {"cpi_score", "road_traffic_deaths_per_100k", "healthcare_access_quality_index"}
LawMetricFields ==
    {"police_reliability_score", "rule_of_law_percentile",
     "public_trust_in_police", "corruption_in_police_force"}
CrimeMetricFields == {"safety_index", "peace_score", "homicide_rate_per_100k"}

\* C2: with no usable scoring metric in the input (no bundle, or bundles
\* without the metric fields) the score is the midpoint of the scale: 12.5
\* for infrastructure and law enforcement, 50.0 for crime.
C2_NoMetricGivesMidpoint ==
    /\ (fn = "calculate_infrastructure_score" /\ NoUsableMetric(arg, InfraMetricFields))
          => ret.value = 125
    /\ (fn = "calculate_law_enforcement_score" /\ NoUsableMetric(arg, LawMetricFields))
          => ret.value = 125
    /\ (fn = "calculate_safety_score" /\ NoUsableMetric(arg, CrimeMetricFields))
          => ret.value = 500

\* the three law-enforcement bundles are present and all lack their metrics
C2_Witness ==
    /\ fn = "calculate_law_enforcement_score"
    /\ DOMAIN arg = LawKeys
    /\ NoUsableMetric(arg, LawMetricFields)
    /\ ret.value = 125

ScoreOrZero(scores, k) == IF k \in DOMAIN scores THEN scores[k] ELSE 0

\* the four scores added up key by key
SumOfScores(scores) ==
    ScoreOrZero(scores, "conflict") + ScoreOrZero(scores, "crime")
        + ScoreOrZero(scores, "infrastructure") + ScoreOrZero(scores, "law_enforcement")
        + ScoreOrZero(scores, "extra")

FourInRange(scores) ==
    /\ Cardinality(DOMAIN scores) = 4
    /\ \A k \in DOMAIN scores : 0 <= scores[k] /\ scores[k] <= 250

\* C3: for every map of exactly four scores in [0, 25], calculate_total_score
\* returns exactly their sum, and the sum lies in [0, 100].
C3_TotalIsSum ==
    (fn = "calculate_total_score" /\ FourInRange(arg))
        => /\ ret = Return(SumOfScores(arg))
           /\ 0 <= ret.value /\ ret.value <= 1000

\* four valid scores with a fractional total: 15.8 + 7.5 + 12.5 + 25 = 60.8
C3_Witness ==
    /\ fn = "calculate_total_score"
    /\ FourInRange(arg)
    /\ {arg[k] : k \in DOMAIN arg} = {158, 75, 125, 250}
    /\ ret = Return(608)

\* C4: calculate_total_score raises ValueError exactly when the map does not
\* have 4 entries or some score is outside [0, 25]; otherwise it returns a total.
C4_RejectsExactlyInvalid ==
    fn = "calculate_total_score"
        => /\ (ret = Raised("ValueError")) <=> ~FourInRange(arg)
           /\ FourInRange(arg) <=> Has(ret, "value")

\* four entries, the only defect a negative score: rejected
C4_Witness ==
    /\ fn = "calculate_total_score"
    /\ Cardinality(DOMAIN arg) = 4
    /\ \E k \in DOMAIN arg :
          /\ arg[k] = -10
          /\ \A j \in DOMAIN arg \ {k} : arg[j] = 125
    /\ ret = Raised("ValueError")

LevelOf(total) ==
    CASE total >= 900 -> "EXCELLENT"
      [] 700 <= total /\ total < 900 -> "GOOD"
      [] 500 <= total /\ total < 700 -> "AVERAGE"
      [] 300 <= total /\ total < 500 -> "CAUTION"
      [] total < 300 -> "DANGEROUS"

\* the call combined a map holding exactly the scores of `counts'
ScoresAre(n250, n125, n0) ==
    /\ Has(arg, "scores")
    /\ Cardinality(DOMAIN arg.scores) = 4
    /\ Cardinality({k \in DOMAIN arg.scores : arg.scores[k] = 250}) = n250
    /\ Cardinality({k \in DOMAIN arg.scores : arg.scores[k] = 125}) = n125
    /\ Cardinality({k \in DOMAIN arg.scores : arg.scores[k] = 0}) = n0

\* C5: for every total in [0, 100] get_safety_level returns the first bucket
\* from the top: Excellent >= 90, Good >= 70, Average >= 50, Caution >= 30,
\* else Dangerous; {25,25,25,25} gives 100 Excellent, {0,0,0,0} gives 0
\* Dangerous, {25,25,12.5,12.5} gives 75 Good.
C5_SafetyLevelBuckets ==
    fn = "get_safety_level"
        => /\ ret.value = LevelOf(arg.total_score)
           /\ ScoresAre(4, 0, 0) => (arg.total_score = 1000 /\ ret.value = "EXCELLENT")
           /\ ScoresAre(0, 0, 4) => (arg.total_score = 0 /\ ret.value = "DANGEROUS")
           /\ ScoresAre(2, 2, 0) => (arg.total_score = 750 /\ ret.value = "GOOD")

\* the scenario {25, 25, 12.5, 12.5}
C5_Witness ==
    /\ fn = "get_safety_level"
    /\ ScoresAre(2, 2, 0)
    /\ ret.value = "GOOD"

(***************************************************************************)
(* Providers under every outcome of their fetches                          *)
(***************************************************************************)

ProviderFunctions ==
    { "get_numbeo_crime_data", "get_global_peace_index_data", "get_unodc_homicide_data",
      "get_corruption_data", "get_traffic_safety_data", "get_healthcare_data",
      "get_gpi_law_enforcement_data", "get_world_bank_governance_data",
      "get_police_trust_data" }

\* the fields a bundle of each provider may hold its metric in
MetricFieldsOf ==
    [ get_numbeo_crime_data |-> {"crime_index"},
      get_global_peace_index_data |-> {"peace_score"},
      get_unodc_homicide_data |-> {"homicide_rate_per_100k", "homicide_rate"},
      get_corruption_data |-> {"cpi_score"},
      get_traffic_safety_data |-> {"road_traffic_deaths_per_100k"},
      get_healthcare_data |-> {"healthcare_access_quality_index"},
      get_gpi_law_enforcement_data |-> {"police_reliability_score"},
      get_world_bank_governance_data |-> {"rule_of_law_percentile"},
      get_police_trust_data |-> {"public_trust_in_police"} ]

\* a metric bundle: a dict with a metric field and a field naming its source
IsBundleOf(d, provider) ==
    /\ MetricFieldsOf[provider] \cap DOMAIN d # {}
    /\ {"data_source", "data_sources"} \cap DOMAIN d # {}

\* C6: every provider function returns a metric bundle whatever the outcome
\* of its HTTP fetches (connection error, timeout, HTTP error status, page
\* the parser rejects, page without the country) and never raises.
C6_ProviderAlwaysReturnsBundle ==
    fn \in ProviderFunctions =>
        /\ ~IsRaised(ret)
        /\ IsBundleOf(ret.value, fn)

\* get_numbeo_crime_data meets a timeout, a 404 and a page the parser
\* rejects, and returns its fallback bundle
C6_Witness ==
    /\ fn = "get_numbeo_crime_data"
    /\ net.numbeo[1].exc = "Timeout"
    /\ net.numbeo[2].exc = "none" /\ net.numbeo[2].status = 404
    /\ net.numbeo[3].exc = "none" /\ net.numbeo[3].status = 200
    /\ net.numbeo[3].page.soup = "raises"
    /\ ~IsRaised(ret)
    /\ ret.value.data_source = "Fallback Data (Numbeo unavailable)"

\* whether the fetches of each provider obtained a real value for its metric
FetchedValue(f) ==
    /\ ~IsRaised(get_checked_soup(f))
    /\ f.page.country
    /\ f.page.value # None

GpiLawFetchedValue(f_maps, f_country) ==
    /\ ~IsRaised(session_get_soup(f_maps))
    /\ f_maps.page.country
    /\ ~IsRaised(session_get_soup(f_country))
    /\ f_country.page.value # None

WorldBankFetchedValue(f) ==
    /\ ~IsRaised(session_get_soup(f))
    /\ f.page.value # None

\* the spelling whose page the numbeo loop takes its indices from (0: none)
NumbeoTaken(fs) ==
    IF \E i \in DOMAIN fs :
          /\ ~IsRaised(get_checked_soup(fs[i]))
          /\ TruthyNum(fs[i].page.value)
          /\ \A j \in 1..(i - 1) :
                IsRaised(get_checked_soup(fs[j]))
                    => IsRequestException(get_checked_soup(fs[j]).exception)
    THEN CHOOSE i \in DOMAIN fs :
          /\ ~IsRaised(get_checked_soup(fs[i]))
          /\ TruthyNum(fs[i].page.value)
          /\ \A j \in 1..(i - 1) :
                /\ IsRaised(get_checked_soup(fs[j]))
                       => IsRequestException(get_checked_soup(fs[j]).exception)
                /\ ~IsRaised(get_checked_soup(fs[j])) => ~TruthyNum(fs[j].page.value)
    ELSE 0

\* C10: whenever a provider obtains no real value for a metric (network
\* error, parse error, country not found on the fetched page) its bundle
\* holds the fixed default: crime_index 50 and safety_index 50; cpi_score 65,
\* road_traffic_deaths_per_100k 12.0, healthcare_access_quality_index 65.0;
\* police_reliability_score 2.5 and rule_of_law_percentile 60.
C10_NoRealValueGivesDefault ==
    /\ (fn = "get_corruption_data" /\ ~FetchedValue(net.cpi))
          => Get(ret.value, "cpi_score", None) = Num(650)
    /\ (fn = "get_traffic_safety_data" /\ ~FetchedValue(net.traffic))
          => Get(ret.value, "road_traffic_deaths_per_100k", None) = Num(120)
    /\ (fn = "get_healthcare_data" /\ ~FetchedValue(net.healthcare))
          => Get(ret.value, "healthcare_access_quality_index", None) = Num(650)
    /\ (fn = "get_gpi_law_enforcement_data"
            /\ ~GpiLawFetchedValue(net.gpi_maps, net.gpi_country))
          => Get(ret.value, "police_reliability_score", None) = Num(25)
    /\ (fn = "get_world_bank_governance_data" /\ ~WorldBankFetchedValue(net.wb))
          => Get(ret.value, "rule_of_law_percentile", None) = Num(600)
    /\ (fn = "get_numbeo_crime_data" /\ NumbeoTaken(net.numbeo) = 0)
          => Get(ret.value, "crime_index", None) = Num(500)
    /\ (fn = "get_numbeo_crime_data"
            /\ (NumbeoTaken(net.numbeo) = 0
                  \/ net.numbeo[NumbeoTaken(net.numbeo)].page.other = None))
          => Get(ret.value, "safety_index", None) = Num(500)

(***************************************************************************)
(* Evaluators when providers fail                                          *)
(***************************************************************************)

\* One provider of an evaluator call, as its fetches went: `failed' when the
\* provider's fetching raised, `ok' when it scraped its metric, `real' the
\* score component of the scraped metric, `substitute' the component of the
\* value the provider hands back in place of one.
Report(failed, ok, real, substitute) ==
    [failed |-> failed, ok |-> ok, real |-> real, substitute |-> substitute]

InfraReports ==
    << Report(IsRaised(get_checked_soup(net.cpi)), FetchedValue(net.cpi),
              IF FetchedValue(net.cpi) THEN political_score(net.cpi.page.value)[1] ELSE 0,
              3 * 650),
       Report(IsRaised(get_checked_soup(net.traffic)), FetchedValue(net.traffic),
              IF FetchedValue(net.traffic)
              THEN traffic_score(net.traffic.page.value)[1] ELSE 0,
              3000 - 10 * 120),
       Report(IsRaised(get_checked_soup(net.healthcare)), FetchedValue(net.healthcare),
              IF FetchedValue(net.healthcare)
              THEN healthcare_score(net.healthcare.page.value)[1] ELSE 0,
              3 * 650) >>

PoliceScrapersRaised ==
    { f \in {"ti", "gallup", "oecd"} : IsRaised(get_soup(net[f])) }

PoliceTrustOk ==
    /\ PoliceScrapersRaised = {}
    /\ net.ti.page.country
    /\ net.ti.page.value # None /\ net.ti.page.value # Num(1000)
    /\ TruthyNum(net.gallup.page.value)

LawReports ==
    << Report(IF IsRaised(session_get_soup(net.gpi_maps)) THEN TRUE
              ELSE net.gpi_maps.page.country /\ IsRaised(session_get_soup(net.gpi_country)),
              GpiLawFetchedValue(net.gpi_maps, net.gpi_country),
              IF GpiLawFetchedValue(net.gpi_maps, net.gpi_country)
              THEN gpi_score(net.gpi_country.page.value)[1] ELSE 0,
              2500 - 50 * 25),
       Report(IsRaised(session_get_soup(net.wb)),
              ~IsRaised(session_get_soup(net.wb)) /\ TruthyNum(net.wb.page.value),
              IF ~IsRaised(session_get_soup(net.wb)) /\ TruthyNum(net.wb.page.value)
              THEN wb_score(net.wb.page.value)[1] ELSE 0,
              2 * 600),
       Report(PoliceScrapersRaised = {"ti", "gallup", "oecd"},
              PoliceTrustOk,
              IF PoliceTrustOk
              THEN net.gallup.page.value[1] + net.ti.page.value[1] ELSE 0,
              650 + (1000 - 300)) >>

CrimeReports ==
    LET taken == NumbeoTaken(net.numbeo)
        numbeo_ok == taken # 0 /\ net.numbeo[taken].page.other # None
        gpi_ok == ~IsRaised(get_checked_soup(net.gpi)) /\ ~IsRaised(get_soup(net.mofa))
        unodc_ok == ~IsRaised(get_checked_soup(net.unodc)) /\ net.who.exc = "none"
        estimate == 1000 - 10 * estimate_homicide_rate_by_region(arg.country).homicide_rate[1]
    IN  << Report(\A i \in DOMAIN net.numbeo : IsRaised(get_checked_soup(net.numbeo[i])),
                  numbeo_ok,
                  IF numbeo_ok THEN net.numbeo[taken].page.other[1] ELSE 0,
                  500),
           Report(IsRaised(get_checked_soup(net.gpi)), gpi_ok,
                  IF gpi_ok
                  THEN 1000 - 20 * extract_mofa_safety_level(net.mofa.page, arg.country).score[1]
                  ELSE 0,
                  1000 - 20 * 20),
           Report(IsRaised(get_checked_soup(net.unodc)), unodc_ok,
                  IF unodc_ok THEN Max(0, estimate) ELSE 0,
                  Max(0, estimate)) >>

\* the evaluator called, its providers, its score field, and the number of
\* component units in a tenth of a point
Evaluators == {"get_infrastructure_data", "get_law_enforcement_data", "get_crime_data"}

ReportsOf ==
    IF fn = "get_infrastructure_data" THEN InfraReports
    ELSE IF fn = "get_law_enforcement_data" THEN LawReports
    ELSE CrimeReports

ScoreFieldOf ==
    [ get_infrastructure_data |-> "overall_infrastructure_score",
      get_law_enforcement_data |-> "overall_law_enforcement_score",
      get_crime_data |-> "overall_safety_score" ]

UnitOf ==
    [ get_infrastructure_data |-> 12, get_law_enforcement_data |-> 8, get_crime_data |-> 1 ]

\* the slot of the result each provider's bundle goes to, and the bundle a
\* provider whose fetching raised hands back
SlotsOf ==
    [ get_infrastructure_data |->
          <<"corruption_perception_index", "traffic_safety_data", "healthcare_system">>,
      get_law_enforcement_data |->
          <<"global_peace_index_data", "world_bank_governance", "police_trust_indicators">>,
      get_crime_data |-> <<"numbeo_data", "global_peace_index", "unodc_homicide_rate">> ]

SubstituteSource ==
    [ get_infrastructure_data |->
          << [data_source |-> "Fallback Data (Scraping Failed)"],
             [data_source |-> "Fallback Data (Scraping Failed)"],
             [data_sources |-> <<"Fallback Data (Scraping Failed)">>] >>,
      get_law_enforcement_data |->
          << [data_source |-> "Default GPI estimates"],
             [data_source |-> "Default World Bank estimates"],
             [data_sources |-> <<>>] >>,
      get_crime_data |->
          << [data_source |-> "Fallback Data (Numbeo unavailable)"],
             [data_source |-> "Fallback Data (GPI unavailable)"],
             [data_source |-> "Regional estimates (UNODC unavailable)"] >> ]

\* some providers failed, the others succeeded
PartialFailure ==
    /\ fn \in Evaluators
    /\ \A i \in 1..3 : ReportsOf[i].failed \/ ReportsOf[i].ok
    /\ \E i \in 1..3 : ReportsOf[i].failed
    /\ \E i \in 1..3 : ReportsOf[i].ok

MeanOf(comps, unit) == RoundHalfEven(SumSeq(comps), unit * Len(comps))

Aborted == IsRaised(ret) \/ Has(ret.value, "error")

AllInfraProvidersRaised ==
    /\ fn \in {"get_infrastructure_data", "analyze_infrastructure_risks"}
    /\ IsRaised(get_checked_soup(net.cpi))
    /\ IsRaised(get_checked_soup(net.traffic))
    /\ IsRaised(get_checked_soup(net.healthcare))

\* the risk analysis of the fallback values 65, 12.0 and 65.0
RiskAnalysisOfDefaults ==
    /\ ~IsRaised(ret)
    /\ ret.value.political_risk_level = "Low"
    /\ ret.value.transport_risk_level = "Medium"
    /\ ret.value.healthcare_risk_level = "Medium"
    /\ ret.value.specific_risks = <<"traffic_somewhat_high", "healthcare_uneven">>
    /\ ret.value.recommendations = <<"wear_seatbelt", "research_hospitals">>
    /\ ret.value.emergency_preparedness = "Good"

Categories == {"conflict", "crime", "infrastructure", "law_enforcement"}

\* every request of every agent failed to connect
EveryProviderFailed ==
    /\ net.conflict_info = ConflictNet("ConnectionError")
    /\ net.crime_info = CrimeNet("ConnectionError")
    /\ net.infra_info = InfraNet("ConnectionError")
    /\ net.law_info = LawNet("ConnectionError")

\* C9: whatever providers fail, every category evaluator delivers a category
\* score, so the composite is fully populated; when every provider of every
\* category fails, each category score is its midpoint default (12.5) and
\* the composite total is exactly 50.
C9_CompositeAlwaysPopulated ==
    fn = "safety_score_synthesizer" =>
        /\ DOMAIN ret.scores = Categories
        /\ ~IsRaised(ret.total)
        /\ EveryProviderFailed =>
              /\ \A c \in Categories : ret.scores[c] = 125
              /\ ret.total = Return(500)

(***************************************************************************)
(* Provenance of the bundles                                               *)
(***************************************************************************)

\* the tags that mark a bundle as fallback, default or estimate
FallbackSources ==
    { "Fallback Data (Scraping Failed)", "Fallback Data (Numbeo unavailable)",
      "Fallback Data (GPI unavailable)", "Regional estimates (UNODC unavailable)",
      "Default GPI estimates", "Default World Bank estimates" }

MarkedAsFallback(d) ==
    \/ Get(d, "data_source", "") \in FallbackSources
    \/ Get(d, "data_sources", <<>>) \in { <<"Fallback Data (Scraping Failed)">>,
                                         <<"Default estimates">> }
    \/ Get(d, "data_quality", "") = "Estimated"

\* whether the metric of the bundle the provider returned is a default or an
\* estimate and not a value scraped from a page
HoldsDefaultOrEstimate ==
    IF fn = "get_corruption_data" THEN ~FetchedValue(net.cpi)
    ELSE IF fn = "get_traffic_safety_data" THEN ~FetchedValue(net.traffic)
    ELSE IF fn = "get_healthcare_data" THEN ~FetchedValue(net.healthcare)
    ELSE IF fn = "get_gpi_law_enforcement_data"
         THEN ret.value.police_reliability_score = Num(25)
                 /\ ~GpiLawFetchedValue(net.gpi_maps, net.gpi_country)
    ELSE IF fn = "get_world_bank_governance_data"
         THEN ret.value.rule_of_law_percentile = Num(600)
                 /\ ~WorldBankFetchedValue(net.wb)
    ELSE IF fn = "get_police_trust_data"
         THEN IsRaised(get_soup(net.gallup)) \/ ~TruthyNum(net.gallup.page.value)
    ELSE IF fn = "get_numbeo_crime_data" THEN NumbeoTaken(net.numbeo) = 0
    ELSE IF fn = "get_global_peace_index_data"
         THEN IsRaised(get_soup(net.mofa)) \/ ~net.mofa.page.country
    \* the homicide figures are never read from a page
    ELSE fn = "get_unodc_homicide_data"

\* C11: every bundle a provider returns carries a source tag, and a bundle
\* whose metric is a default or an estimate is tagged as fallback or
\* estimate: a bundle with a real source name, or data_quality High, never
\* holds default or estimated values.
C11_DefaultsAreTaggedAsFallback ==
    fn \in ProviderFunctions =>
        /\ {"data_source", "data_sources"} \cap DOMAIN ret.value # {}
        /\ HoldsDefaultOrEstimate =>
              /\ MarkedAsFallback(ret.value)
              /\ Get(ret.value, "data_quality", "") # "High"

(***************************************************************************)
(* The scale of the crime score                                            *)
(***************************************************************************)

\* C12: the score get_crime_data delivers, overall_safety_score, is on the
\* 25-point category scale: it lies in [0, 25] and the composite scorer's
\* validation accepts it next to three valid scores.
C12_CrimeScoreOnCategoryScale ==
    (fn = "get_crime_data" /\ ~Aborted) =>
        /\ 0 <= ret.value.overall_safety_score
        /\ ret.value.overall_safety_score <= MAX_SCORE_PER_CATEGORY
        /\ validate_scores([ conflict |-> 125,
                             crime |-> ret.value.overall_safety_score,
                             infrastructure |-> 125,
                             law_enforcement |-> 125 ])

(***************************************************************************)
(* Retries                                                                 *)
(***************************************************************************)

RequestFailed(f) == f.exc # "none" \/ f.status >= 400

\* C13: no provider call is retried: once a request to a source has failed,
\* the provider issues no further request to that source (here: to the same
\* URL) and goes to its fallback.
C13_NoRequestAfterFailure ==
    fn \in FetchingProviders =>
        \A i, j \in DOMAIN net.log :
            (i < j /\ RequestFailed(net.log[i].fetch)) => net.log[i].url # net.log[j].url

(***************************************************************************)
(* Risk levels                                                             *)
(***************************************************************************)

\* whether the classifier's input has provider bundle k with field f, and
\* the field's value (None when it is not there)
HasMetric(k, f) == Has(arg, k) /\ Has(arg[k], f)

MetricOf(k, f) == IF HasMetric(k, f) THEN arg[k][f] ELSE None

NoNumbeoSignal ==
    Has(arg, "numbeo_data") =>
        DOMAIN arg["numbeo_data"]
            \cap {"pickpocket_probability", "theft_probability", "assault_probability"} = {}

\* C14: with no Numbeo probability signal, violent_crime_risk follows the
\* homicide rate alone: High iff rate > 10, Medium iff 5 < rate <= 10, Low
\* iff rate <= 5 or the metric is absent (so 15.0 is High and 7.0 Medium).
C14_ViolentCrimeRiskByHomicideRate ==
    LET absent == ~HasMetric("unodc_homicide_rate", "homicide_rate_per_100k")
        rate == MetricOf("unodc_homicide_rate", "homicide_rate_per_100k")
    IN  (fn = "analyze_travel_safety_risks" /\ NoNumbeoSignal /\ (absent \/ rate # None)) =>
            /\ ~IsRaised(ret)
            /\ ret.value.violent_crime_risk = "High" <=> (~absent /\ rate[1] > 100)
            /\ ret.value.violent_crime_risk = "Medium"
                   <=> (~absent /\ 50 < rate[1] /\ rate[1] <= 100)
            /\ ret.value.violent_crime_risk = "Low" <=> (absent \/ rate[1] <= 50)

\* a rate of exactly 10.0, alone, is Medium
C14_Witness ==
    /\ fn = "analyze_travel_safety_risks"
    /\ NoNumbeoSignal
    /\ arg = [unodc_homicide_rate |-> [homicide_rate_per_100k |-> Num(100)]]
    /\ ret.value.violent_crime_risk = "Medium"
    /\ ret.value.specific_risks = <<>>

\* the level a classifier gives a metric that worsens as it falls: `worst'
\* below lo, `middle' from lo up to but excluding hi, `best' from hi on
LevelOfRising(v, lo, hi, worst, middle, best) ==
    IF v < lo THEN worst ELSE IF v < hi THEN middle ELSE best

\* the level of a metric that worsens as it grows: `worst' above hi,
\* `middle' above lo up to and including hi, `best' up to and including lo
LevelOfFalling(v, lo, hi, worst, middle, best) ==
    IF v > hi THEN worst ELSE IF v > lo THEN middle ELSE best

\* the claimed level of field `level' of the analysis for metric f of bundle k
\* holds whenever the input carries the metric as a number
LevelIs(level, k, f, expected(_)) ==
    (HasMetric(k, f) /\ MetricOf(k, f) # None /\ ~IsRaised(ret)) =>
        ret.value[level] = expected(MetricOf(k, f)[1])

\* C15: the infrastructure and law-enforcement classifiers use the stated
\* limits: cpi_score < 40 High, 40 <= cpi < 60 Medium, >= 60 Low; road deaths
\* > 20 High, 10 < d <= 20 Medium, <= 10 Low; healthcare index < 50 High,
\* 50 <= h < 70 Medium, >= 70 Low; police_reliability_score > 3.5 worst,
\* 2.5 < s <= 3.5 middle, <= 2.5 best; corruption_in_police_force > 60 High,
\* 30 < c <= 60 Medium, <= 30 Low; rule_of_law_percentile < 30 worst,
\* 30 <= p < 60 middle, >= 60 best.
C15_RiskLevelLimits ==
    /\ fn = "analyze_infrastructure_risks" =>
          /\ LevelIs("political_risk_level", "corruption_perception_index", "cpi_score",
                     LAMBDA v : LevelOfRising(v, 400, 600, "High", "Medium", "Low"))
          /\ LevelIs("transport_risk_level", "traffic_safety_data",
                     "road_traffic_deaths_per_100k",
                     LAMBDA v : LevelOfFalling(v, 100, 200, "High", "Medium", "Low"))
          /\ LevelIs("healthcare_risk_level", "healthcare_system",
                     "healthcare_access_quality_index",
                     LAMBDA v : LevelOfRising(v, 500, 700, "High", "Medium", "Low"))
    /\ fn = "analyze_law_enforcement_risks" =>
          /\ LevelIs("police_reliability_level", "global_peace_index_data",
                     "police_reliability_score",
                     LAMBDA v : LevelOfFalling(v, 25, 35, "Low", "Moderate", "Standard"))
          /\ LevelIs("corruption_risk_level", "police_trust_indicators",
                     "corruption_in_police_force",
                     LAMBDA v : LevelOfFalling(v, 300, 600, "High", "Medium", "Low"))
          /\ LevelIs("judicial_system_trust", "world_bank_governance",
                     "rule_of_law_percentile",
                     LAMBDA v : LevelOfRising(v, 300, 600, "Low", "Moderate", "High"))

\* every law-enforcement metric sits on a limit: 3.5 is still the middle
\* level, 30 still Low and 60 already the best level
C15_Witness ==
    /\ fn = "analyze_law_enforcement_risks"
    /\ arg = [global_peace_index_data |-> [police_reliability_score |-> Num(35)],
              police_trust_indicators |-> [corruption_in_police_force |-> Num(300)],
              world_bank_governance |-> [rule_of_law_percentile |-> Num(600)]]
    /\ ret = Return([police_reliability_level |-> "Moderate",
                     corruption_risk_level |-> "Low",
                     judicial_system_trust |-> "High"] @@ ret.value)

(***************************************************************************)
(* Exceptions of the score computations and the risk classifiers           *)
(***************************************************************************)

RiskClassifiers ==
    {"analyze_travel_safety_risks", "analyze_infrastructure_risks",
     "analyze_law_enforcement_risks"}

\* the provider bundles of the result an evaluator has returned
BundlesOf(result) ==
    {k \in DOMAIN result : k \in InfraKeys \cup LawKeys \cup CrimeKeys}

\* C16: on every bundle the category's providers can return (scraped,
\* partially scraped with fields left unset, fallback) neither the score
\* computation nor the risk classifier raises.
C16_ScoreAndClassifierNeverRaise ==
    /\ (fn \in Evaluators /\ BundlesOf(ret.value) # {}) => ScoreFieldOf[fn] \in DOMAIN ret.value
    /\ fn \in RiskClassifiers => ~IsRaised(ret)

(***************************************************************************)
(* Determinism and monotonicity of the scores                              *)
(***************************************************************************)

RaisesOnly(m) ==
    /\ Len(arg) = 2
    /\ Differing(fn, RawMetrics(arg[1]), RawMetrics(arg[2])) = {m}
    /\ arg[2][m[1]][m[2]][1] > arg[1][m[1]][m[2]][1]

\* C18: with all other metrics fixed, raising a better-is-higher metric
\* never lowers the category score and raising a better-is-lower metric
\* never raises it.
C18_ScoreMonotone ==
    fn \in ScoredCategories =>
        \A m \in MetricsOf[fn] :
            RaisesOnly(m) =>
                /\ m[2] \in BetterIsHigher => ret[2].score >= ret[1].score
                /\ m[2] \in BetterIsLower => ret[2].score <= ret[1].score

\* road deaths raised from 15.0 to 30.0 with the other two metrics fixed
\* lower the infrastructure score
C18_Witness ==
    /\ fn = "infrastructure"
    /\ RaisesOnly(<<"traffic_safety_data", "road_traffic_deaths_per_100k">>)
    /\ DOMAIN RawMetrics(arg[1]) = {"corruption_perception_index", "traffic_safety_data",
                                    "healthcare_system"}
    /\ arg[1]["traffic_safety_data"]["road_traffic_deaths_per_100k"] = Num(150)
    /\ arg[2]["traffic_safety_data"]["road_traffic_deaths_per_100k"] = Num(300)
    /\ ret[2].score < ret[1].score

(***************************************************************************)
(* The evaluators never raise                                              *)
(***************************************************************************)

\* C19: get_crime_data, get_infrastructure_data and get_law_enforcement_data
\* never raise: every result is a dict carrying the requested country, and
\* either the category's overall score key or, when a provider function
\* raised, both an error message and fallback_data.
C19_EvaluatorNeverRaises ==
    fn \in Evaluators =>
        /\ ~IsRaised(ret)
        /\ Get(ret.value, "country", "") = arg.country
        /\ \/ Has(ret.value, ScoreFieldOf[fn])
           \/ /\ net.patched # {}
              /\ Has(ret.value, "error")
              /\ Has(ret.value, "fallback_data")

\* get_numbeo_crime_data alone raises: the result is the error dict with
\* the fallback data and no score
C19_Witness ==
    /\ fn = "get_crime_data"
    /\ arg.country = "Japan"
    /\ net.patched = {"get_numbeo_crime_data"}
    /\ DOMAIN ret.value = {"country", "error", "fallback_data"}
    /\ ret.value.fallback_data = get_fallback_crime_data("Japan")

(***************************************************************************)
(* The fields of the homicide bundle                                       *)
(***************************************************************************)

\* the keys the test of get_unodc_homicide_data requires
UnodcRequiredKeys ==
    {"homicide_rate_per_100k", "total_homicides", "year",
     "data_quality", "data_source", "comparative_ranking"}

\* C20: for every country and every combination of outcomes of the UNODC
\* fetch and the nested WHO fetch, get_unodc_homicide_data returns a bundle
\* with homicide_rate_per_100k (a number >= 0), total_homicides, year,
\* data_quality, data_source and comparative_ranking.
C20_HomicideBundleComplete ==
    fn = "get_unodc_homicide_data" =>
        /\ ~IsRaised(ret)
        /\ UnodcRequiredKeys \subseteq DOMAIN ret.value
        /\ ret.value.homicide_rate_per_100k # None
        /\ ret.value.homicide_rate_per_100k[1] >= 0

(***************************************************************************)
(* The conflict tool                                                       *)
(***************************************************************************)

\* the request of get_conflict_risk_info or the parse of its page raised
ConflictFetchRaised ==
    /\ net.requested # <<>>
    /\ \/ net.conflict.exc # "none"
       \/ net.conflict.status = 200 /\ net.conflict.page.soup = "raises"

\* C21: get_conflict_risk_info never raises; it returns status error (with
\* the error text) iff the fetch or the parse raised; otherwise status
\* success with the fifteen table countries in high_risk_countries, and data
\* holds an entry for the requested country iff the country is in the table
\* and the fetch answered HTTP 200; for a country outside the table no
\* request is issued.
C21_ConflictInfoResult ==
    fn = "get_conflict_risk_info" =>
        /\ ~IsRaised(ret)
        /\ ret.value.status \in {"error", "success"}
        /\ ret.value.status = "error" <=> ConflictFetchRaised
        /\ ret.value.status = "error" => Has(ret.value, "error")
        /\ ret.value.status = "success" =>
              /\ ret.value.high_risk_countries = DOMAIN country_codes
              /\ Cardinality(ret.value.high_risk_countries) = 15
              /\ DOMAIN ret.value.data \subseteq {arg.country_name}
              /\ arg.country_name \in DOMAIN ret.value.data
                    <=> /\ arg.country_name \in DOMAIN country_codes
                        /\ net.conflict.status = 200
        /\ arg.country_name \notin DOMAIN country_codes => net.requested = <<>>

\* a table country whose page answers 404: success, the fifteen countries,
\* no entry for the country
C21_Witness ==
    /\ fn = "get_conflict_risk_info"
    /\ arg.country_name = "Syria"
    /\ net.requested # <<>>
    /\ net.conflict.exc = "none" /\ net.conflict.status = 404
    /\ ret.value.status = "success"
    /\ ret.value.data = EmptyDict
    /\ "Yemen" \in ret.value.high_risk_countries

(***************************************************************************)
(* Scores on out-of-range and non-numeric metrics                          *)
(***************************************************************************)

ScoreFunctions ==
    {"calculate_infrastructure_score", "calculate_law_enforcement_score",
     "calculate_safety_score"}

\* the top of the scale of each score function, in tenths of a point
CapOf ==
    [ calculate_infrastructure_score |-> 250,
      calculate_law_enforcement_score |-> 250,
      calculate_safety_score |-> 1000 ]

\* every field of every bundle of d holds a number
AllNumeric(d) == \A k \in DOMAIN d : \A f \in DOMAIN d[k] : d[k][f] # None

\* C22: for every numeric raw value, also one outside the nominal range of
\* its metric (a cpi_score above 100, a police_reliability_score below 1),
\* every component is clamped into [0, cap], so the category score stays in
\* [0, 25] (in [0, 100] for the crime score).
C22_ScoreClampedForAnyNumber ==
    (fn \in ScoreFunctions /\ AllNumeric(arg)) =>
        /\ 0 <= ret.value
        /\ ret.value <= CapOf[fn]

\* the midpoint default of each score function, in tenths of a point
MidpointOf ==
    [ calculate_infrastructure_score |-> 125,
      calculate_law_enforcement_score |-> 125,
      calculate_safety_score |-> 500 ]

\* a metric the score function reads is None, so that its arithmetic raises
\* TypeError
SomeMetricIsNone(d) ==
    \E k \in DOMAIN d :
        \E f \in DOMAIN d[k] \cap (InfraMetricFields \cup LawMetricFields \cup CrimeMetricFields) :
            d[k][f] = None

\* C23: when an exception occurs inside the scoring math (a metric that is
\* None), the score function does not raise and returns exactly the midpoint
\* default of its category (12.5 for infrastructure and law enforcement,
\* 50.0 for crime), whatever the other components are.
C23_ExceptionGivesMidpoint ==
    (fn \in ScoreFunctions /\ SomeMetricIsNone(arg)) =>
        /\ ~IsRaised(ret)
        /\ ret.value = MidpointOf[fn]

\* the rule of law percentile is None next to a police reliability of 1.0
\* and full trust, which alone would score 25
C23_Witness ==
    /\ fn = "calculate_law_enforcement_score"
    /\ arg = [global_peace_index_data |-> [police_reliability_score |-> Num(10)],
              world_bank_governance |-> [rule_of_law_percentile |-> None],
              police_trust_indicators |-> [public_trust_in_police |-> Num(1000),
                                           corruption_in_police_force |-> Num(0)]]
    /\ ret.value = 125

(***************************************************************************)
(* The score as a mean over the bundles present                            *)
(***************************************************************************)

\* the component score of provider bundle k of d, in the units of UnitOf; a
\* metric missing from a bundle of the infrastructure or law-enforcement
\* dict is read as its default
ComponentOf(d, k) ==
    CASE k = "corruption_perception_index" ->
             political_score(Get(d[k], "cpi_score", Num(500)))
      [] k = "traffic_safety_data" ->
             traffic_score(Get(d[k], "road_traffic_deaths_per_100k", Num(150)))
      [] k = "healthcare_system" ->
             healthcare_score(Get(d[k], "healthcare_access_quality_index", Num(500)))
      [] k = "global_peace_index_data" ->
             gpi_score(Get(d[k], "police_reliability_score", Num(30)))
      [] k = "world_bank_governance" ->
             wb_score(Get(d[k], "rule_of_law_percentile", Num(500)))
      [] k = "police_trust_indicators" ->
             police_score(Get(d[k], "public_trust_in_police", Num(500)),
                          Get(d[k], "corruption_in_police_force", Num(500)))
      [] k = "numbeo_data" -> Get(d[k], "safety_index", Num(0))
      [] k = "global_peace_index" -> peace_score_component(Get(d[k], "peace_score", Num(0)))
      [] k = "unodc_homicide_rate" ->
             homicide_score(Get(d[k], "homicide_rate_per_100k", Num(0)))

\* the bundles of the crime dict that hold the metric calculate_safety_score
\* reads from them
HoldsItsMetric(d, k) ==
    \/ k = "numbeo_data" /\ Has(d[k], "safety_index")
    \/ k = "global_peace_index" /\ Has(d[k], "peace_score")
    \/ k = "unodc_homicide_rate" /\ Has(d[k], "homicide_rate_per_100k")

RECURSIVE SumOfComponents(_, _)
SumOfComponents(d, K) ==
    IF K = {} THEN 0
    ELSE LET k == CHOOSE x \in K : TRUE
         IN  ComponentOf(d, k)[1] + SumOfComponents(d, K \ {k})

\* the units of a tenth of a point in which each function's components are
UnitOfScore ==
    [ calculate_infrastructure_score |-> 12,
      calculate_law_enforcement_score |-> 8,
      calculate_safety_score |-> 1 ]

\* the mean over the bundles of K, rounded to one decimal
MeanOver(d, K) ==
    RoundHalfEven(SumOfComponents(d, K), UnitOfScore[fn] * Cardinality(K))

\* C24 as claimed: with at least one provider bundle present, each score
\* function returns the unweighted mean of the component scores of exactly
\* the provider bundles present (one component per provider), rounded to one
\* decimal.
C24_MeanOverBundlesPresent ==
    (fn \in ScoreFunctions /\ DOMAIN arg # {} /\ AllNumeric(arg)) =>
        ret.value = MeanOver(arg, DOMAIN arg)

\* C24 (amended): calculate_infrastructure_score and
\* calculate_law_enforcement_score return the mean over exactly the bundles
\* present; calculate_safety_score returns the mean over exactly the bundles
\* present that hold their metric, and 50.0 when none of them does.
C24_MeanOverBundlesWithComponent ==
    (fn \in ScoreFunctions /\ DOMAIN arg # {} /\ AllNumeric(arg)) =>
        LET counted == IF fn = "calculate_safety_score"
                       THEN {k \in DOMAIN arg : HoldsItsMetric(arg, k)}
                       ELSE DOMAIN arg
        IN  ret.value = IF counted = {} THEN 500 ELSE MeanOver(arg, counted)

\* the Numbeo bundle is present without a safety index: the crime score is
\* the mean of the other two components, (50 + 20) / 2
C24_Witness ==
    /\ fn = "calculate_safety_score"
    /\ arg = [numbeo_data |-> EmptyDict,
              global_peace_index |-> [peace_score |-> Num(40)],
              unodc_homicide_rate |-> [homicide_rate_per_100k |-> Num(50)]]
    /\ ret.value = 350

\* C25: whenever numbeo_data.assault_probability is High or Very High,
\* analyze_travel_safety_risks returns violent_crime_risk High for every
\* homicide rate: the later check of the homicide rate never lowers the
\* level the assault check has raised.
C25_AssaultKeepsViolentRiskHigh ==
    (/\ fn = "analyze_travel_safety_risks"
     /\ ~IsRaised(ret)
     /\ Has(arg, "numbeo_data")
     /\ Get(arg["numbeo_data"], "assault_probability", "") \in {"High", "Very High"})
        => ret.value.violent_crime_risk = "High"

(***************************************************************************)
(* The spellings get_numbeo_crime_data tries                               *)
(***************************************************************************)

\* the i-th request of the log was answered by a page holding a crime index
YieldsCrimeIndex(i) ==
    /\ ~IsRaised(get_checked_soup(net.log[i].fetch))
    /\ net.log[i].fetch.page.value # None

\* C26: get_numbeo_crime_data tries the spellings of the country in the fixed
\* order (as given, spaces as "+", as "-", removed), returns the bundle of
\* the first spelling whose page yields a crime index, and returns the
\* fallback bundle only after every spelling has been tried and has failed.
C26_FirstSpellingThatYields ==
    (fn = "get_numbeo_crime_data" /\ net.pc = "done") =>
        LET n == Len(net.log)
            spellings == country_variations(arg.country)
        IN  /\ ~IsRaised(ret)
            /\ \A i \in 1..n : net.log[i].url = UrlOf(fn, arg.country, i)
            /\ \A i \in 1..n : YieldsCrimeIndex(i) =>
                  /\ i = n
                  /\ ret.value.data_source = "Numbeo Crime Database"
                  /\ ret.value.country_variant_used = spellings[i]
            /\ (\A i \in 1..n : ~YieldsCrimeIndex(i)) =>
                  /\ n = Len(spellings)
                  /\ ret.value = get_fallback_numbeo_data(arg.country)

(***************************************************************************)
(* The parallel group and the synthesizer                                  *)
(***************************************************************************)

\* the agents that have stored their output
StoredAgents == {net.stored[i] : i \in DOMAIN net.stored}

\* C27: the synthesizer starts only after all four agents of the parallel
\* group have finished; each agent writes only its own output key; so under
\* every interleaving of the four agents the synthesizer reads the same four
\* values, the result of each agent's own tool call.
C27_SynthesizerReadsFourOwnValues ==
    /\ fn = "safety_score_gatherer" =>
          /\ DOMAIN ret = {output_key(a) : a \in StoredAgents}
          /\ \A a \in StoredAgents : ret[output_key(a)] = net.calls[a].result
    /\ fn = "safety_score_synthesizer" =>
          /\ StoredAgents = GatheringAgents
          /\ DOMAIN ret.read = OutputKeys
          /\ \A a \in GatheringAgents :
                ret.read[output_key(a)]
                    = ToolResult(a, arg.country, net.calls[a].weather)

\* the agents stored their outputs in the reverse of the order of the group
\* and the synthesizer has read the four values
C27_Witness ==
    /\ fn = "safety_score_synthesizer"
    /\ net.stored = <<"law_agent", "infra_agent", "crime_agent", "conflict_info_agent">>
    /\ net.calls["law_agent"].weather = "data"
    /\ net.calls["crime_agent"].weather = "ConnectionError"
    /\ DOMAIN ret.read = OutputKeys
    /\ ret.read["law_info"] # ret.read["infra_info"]

(***************************************************************************)
(* The police reliability score of law_agent's extract_gpi_data            *)
(***************************************************************************)

\* get_gpi_law_enforcement_data reached extract_gpi_data: both pages answered
GpiLawExtracted ==
    /\ fn = "get_gpi_law_enforcement_data"
    /\ ~IsRaised(session_get_soup(net.gpi_maps))
    /\ net.gpi_maps.page.country
    /\ ~IsRaised(session_get_soup(net.gpi_country))

\* C28: law_agent's extract_gpi_data always returns a numeric
\* police_reliability_score: the scraped security_officers_and_police value
\* if there is one, the default 2.5 otherwise.
C28_PoliceReliabilityAlwaysNumeric ==
    GpiLawExtracted =>
        /\ ret.value.police_reliability_score # None
        /\ ret.value.police_reliability_score
              = IF net.gpi_country.page.value # None
                THEN net.gpi_country.page.value
                ELSE Num(25)

(***************************************************************************)
(* specific_risks and recommendations of the risk classifiers              *)
(***************************************************************************)

\* the threshold crossings of a classifier in the order its code checks the
\* metrics: the risk and the recommendation each one appends
CrossingsOf(classifier) ==
    IF classifier = "analyze_travel_safety_risks"
    THEN << <<"pickpocket_high", "spread_valuables">>,
            <<"theft_high", "use_hotel_safe">>,
            <<"assault_high", "avoid_going_out_at_night">>,
            <<"homicide_high", "stay_away_from_dangerous_areas">> >>
    ELSE IF classifier = "analyze_infrastructure_risks"
    THEN << <<"corruption_high", "refuse_bribes">>,
            <<"transparency_issue", "use_official_routes">>,
            <<"traffic_very_high", "use_public_transport">>,
            <<"traffic_somewhat_high", "wear_seatbelt">>,
            <<"healthcare_low", "insurance_required">>,
            <<"healthcare_uneven", "research_hospitals">> >>
    ELSE << <<"police_unreliable", "contact_embassy_first">>,
            <<"police_response_uneven", "consult_several_agencies">>,
            <<"bribery_high", "keep_records_refuse_demands">>,
            <<"bribery_possible", "follow_procedure_keep_receipts">>,
            <<"judiciary_not_independent", "seek_legal_support_at_once">>,
            <<"judiciary_unpredictable", "research_legal_requirements">> >>

\* the place of a risk among the crossings of a classifier (0: none appends it)
CrossingOfRisk(classifier, risk) ==
    LET cs == CrossingsOf(classifier)
    IN  IF \E j \in DOMAIN cs : cs[j][1] = risk
        THEN CHOOSE j \in DOMAIN cs : cs[j][1] = risk
        ELSE 0

\* C29: in the result of each risk classifier, specific_risks and
\* recommendations have the same length, their i-th entries were appended by
\* the same threshold crossing, and the entries stand in the order the
\* metrics are checked.
C29_RisksPairedWithRecommendations ==
    (fn \in RiskClassifiers /\ ~IsRaised(ret)) =>
        LET risks == ret.value.specific_risks
            recs == ret.value.recommendations
            cs == CrossingsOf(fn)
        IN  /\ Len(risks) = Len(recs)
            /\ \A i \in DOMAIN risks :
                  /\ CrossingOfRisk(fn, risks[i]) # 0
                  /\ i \in DOMAIN recs
                  /\ recs[i] = cs[CrossingOfRisk(fn, risks[i])][2]
            /\ \A i, j \in DOMAIN risks :
                  i < j => CrossingOfRisk(fn, risks[i]) < CrossingOfRisk(fn, risks[j])

\* the four crossings of the crime classifier at once
C29_Witness ==
    /\ fn = "analyze_travel_safety_risks"
    /\ ~IsRaised(ret)
    /\ ret.value.specific_risks
          = <<"pickpocket_high", "theft_high", "assault_high", "homicide_high">>
    /\ Len(ret.value.recommendations) = 4

(***************************************************************************)
(* Scraped values and defaults                                             *)
(***************************************************************************)

\* the number a fetch's page holds for the scraper (None: no value scraped)
ScrapedBy(f) ==
    IF IsRaised(get_soup(f)) \/ ~f.page.country THEN None ELSE f.page.value

\* the corruption score scraped from Transparency International (100 - CPI)
\* is what get_police_trust_data returns as corruption_in_police_force
TiScrapedValueKept ==
    (fn = "get_police_trust_data" /\ ScrapedBy(net.ti) # None) =>
        ret.value.corruption_in_police_force = Num(1000 - ScrapedBy(net.ti)[1])

\* the percentage scraped from Gallup is returned as public_trust_in_police
GallupScrapedValueKept ==
    (fn = "get_police_trust_data" /\ ScrapedBy(net.gallup) # None) =>
        ret.value.public_trust_in_police = ScrapedBy(net.gallup)

\* the rule-of-law percentile scraped from the World Bank is returned
WorldBankScrapedValueKept ==
    (fn = "get_world_bank_governance_data" /\ WorldBankFetchedValue(net.wb)) =>
        ret.value.rule_of_law_percentile = net.wb.page.value

\* the crime index scraped from the page of the first spelling is returned
NumbeoScrapedValueKept ==
    (/\ fn = "get_numbeo_crime_data"
     /\ ~IsRaised(get_checked_soup(net.numbeo[1]))
     /\ net.numbeo[1].page.value # None) =>
        ret.value.crime_index = net.numbeo[1].page.value

\* C30: a provider substitutes a default for a metric only when its scrape
\* found no value; a scraped value is returned as it was scraped, also when
\* it is zero (Transparency International corruption 0, Gallup trust 0%,
\* World Bank percentile 0, Numbeo crime index 0).
C30_ScrapedValueKeptEvenZero ==
    /\ TiScrapedValueKept
    /\ GallupScrapedValueKept
    /\ WorldBankScrapedValueKept
    /\ NumbeoScrapedValueKept

====
